---- MODULE Spec2Model ----
(***************************************************************************)
(* Ride & Pickup DBMS: the seven-table store behind the API, and the React *)
(* forms that validate input and send create / update requests.            *)
(***************************************************************************)
EXTENDS Integers, Sequences, FiniteSets, TLC

(***************************************************************************)
(* Bounds of the model.                                                    *)
(***************************************************************************)
MaxRows == 6       \* rows in the store, all tables together

VARIABLES
    tables,      \* entity -> (key -> row): the seven relational tables
    last,        \* the last API call on the store and its outcome
    env,         \* the browser: its time zone and the current year
    form,        \* the entity whose form is mounted, NoForm when none is
    editing,     \* the row the form edits (its prop), Null in create mode
    formData,    \* field -> value
    errors,      \* field -> message
    submitting,
    apiError,    \* the message in the form's error banner, "" when null
    loadingData, \* the dropdown data of the form is still being fetched
    request,     \* the create / update request in flight, NoRequest when none
    event,       \* what the form did last
    call,        \* one API call on its way through the client's error path
    probe,       \* one application of a validation function and its outcome
    script,      \* the statements of init_db.sql executed so far
    seeded,      \* table -> the rows the seeding session sees
    report,      \* the last report run over the seeded tables
    removal,     \* the last DELETE request of the API on the seeded tables
    list,        \* the useState values of a list view (CustomerList)
    net,         \* the list view's requests in flight and the rows behind the API
    reports      \* the Reports view: its useState values and its requests in flight

dbVars == <<tables, last>>

formVars == <<env, form, editing, formData, errors, submitting, apiError, loadingData,
              request, event>>

errVars == <<call>>

valVars == <<probe>>

seedVars == <<script, seeded, report, removal>>

viewVars == <<list, net, reports>>

vars == <<tables, last, env, form, editing, formData, errors, submitting, apiError,
          loadingData, request, event, call, probe, script, seeded, report,
          removal, list, net, reports>>

(***************************************************************************)
(* Section 1. The relational store (spec.md 3, 4.2, 6, 7).                 *)
(***************************************************************************)
Entities == {"Customer", "Driver", "Vehicle", "Location", "Ride", "Payment", "Rating"}

\* Two keys per table: a row, and another row of the same table.
Keys == {1, 2}

\* The values of an entity's plain column. The leaf tables carry two values, so
\* that a write can change a value; the referenced tables carry one.
DataVals(e) == IF e \in {"Payment", "Rating"} THEN {1, 2} ELSE {1}

\* The foreign keys of an entity: field -> referenced entity.
ForeignKeys(e) ==
    CASE e = "Vehicle" -> [driver_id |-> "Driver"]
      [] e = "Ride"    -> [customer_id |-> "Customer", driver_id |-> "Driver",
                           vehicle_vin |-> "Vehicle",
                           pickup_location_id |-> "Location",
                           dropoff_location_id |-> "Location"]
      [] e = "Payment" -> [ride_id |-> "Ride"]
      [] e = "Rating"  -> [ride_id |-> "Ride"]
      [] OTHER         -> <<>>

\* One non-key attribute per entity stands for its plain columns.
DataField(e) ==
    CASE e = "Customer" -> "name"
      [] e = "Driver"   -> "name"
      [] e = "Vehicle"  -> "model"
      [] e = "Location" -> "address"
      [] e = "Ride"     -> "start_time"
      [] e = "Payment"  -> "amount"
      [] e = "Rating"   -> "driver_rating"

Fields(e) == DOMAIN ForeignKeys(e) \cup {DataField(e)}

Payloads(e) ==
    {p \in [Fields(e) -> Keys] :
        /\ p[DataField(e)] \in DataVals(e)
        /\ \A f \in DOMAIN ForeignKeys(e) : p[f] \in Keys}

NoPayload == <<>>

\* get(key): the stored row or NotFound.
Get(t, e, k) == IF k \in DOMAIN t[e] THEN t[e][k] ELSE "NotFound"

\* A payload whose every foreign key names an existing row.
RefsExist(t, e, p) ==
    \A f \in DOMAIN ForeignKeys(e) : p[f] \in DOMAIN t[ForeignKeys(e)[f]]

\* The rows that reference row k of entity e.
Dependents(t, e, k) ==
    {<<c, ck, f>> \in Entities \X Keys \X
                      {"driver_id", "customer_id", "vehicle_vin", "pickup_location_id",
                       "dropoff_location_id", "ride_id"} :
        /\ ck \in DOMAIN t[c]
        /\ f \in DOMAIN ForeignKeys(c)
        /\ ForeignKeys(c)[f] = e
        /\ t[c][ck][f] = k}

RowCount(t) == LET RECURSIVE Sum(_)
                   Sum(S) == IF S = {} THEN 0
                             ELSE LET e == CHOOSE x \in S : TRUE
                                  IN Cardinality(DOMAIN t[e]) + Sum(S \ {e})
               IN Sum(Entities)

Put(t, e, k, p) ==
    [t EXCEPT ![e] = [x \in DOMAIN t[e] \cup {k} |-> IF x = k THEN p ELSE t[e][x]]]

Remove(t, e, k) ==
    [t EXCEPT ![e] = [x \in DOMAIN t[e] \ {k} |-> t[e][x]]]

\* The record kept of an API call: a rejected call keeps no payload.
Outcome(op, e, k, p, res) ==
    [op |-> op, entity |-> e, key |-> k, result |-> res,
     payload |-> IF res = "ok" THEN p ELSE NoPayload,
     dangling |-> IF p = NoPayload THEN FALSE ELSE ~RefsExist(tables, e, p)]

\* A create that never consults the referenced tables.
CreateUnchecked(e, k, p) ==
    /\ UNCHANGED <<formVars, errVars, valVars, seedVars, viewVars>>
    /\ RowCount(tables) < MaxRows
    /\ e = "Vehicle" \/ k \notin DOMAIN tables[e]
    /\ IF k \in DOMAIN tables[e]
       THEN /\ tables' = tables
            /\ last' = Outcome("create", e, k, p, "ConstraintViolation")
       ELSE /\ tables' = Put(tables, e, k, p)
            /\ last' = Outcome("create", e, k, p, "ok")

\* A create that stores the column default in place of the submitted value.
CreateDefaultColumn(e, k, p) ==
    /\ UNCHANGED <<formVars, errVars, valVars, seedVars, viewVars>>
    /\ RowCount(tables) < MaxRows
    /\ e = "Vehicle" \/ k \notin DOMAIN tables[e]
    /\ IF k \in DOMAIN tables[e] \/ ~RefsExist(tables, e, p)
       THEN /\ tables' = tables
            /\ last' = Outcome("create", e, k, p, "ConstraintViolation")
       ELSE /\ tables' = Put(tables, e, k, [p EXCEPT ![DataField(e)] = 1])
            /\ last' = Outcome("create", e, k, p, "ok")

\* create(fields): Vehicle is keyed by the VIN the client supplies, the other
\* entities by a key the store generates.
Create(e, k, p) ==
    /\ UNCHANGED <<formVars, errVars, valVars, seedVars, viewVars>>
    /\ RowCount(tables) < MaxRows
    /\ e = "Vehicle" \/ k \notin DOMAIN tables[e]
    /\ IF k \in DOMAIN tables[e] \/ ~RefsExist(tables, e, p)
       THEN /\ tables' = tables
            /\ last' = Outcome("create", e, k, p, "ConstraintViolation")
       ELSE /\ tables' = Put(tables, e, k, p)
            /\ last' = Outcome("create", e, k, p, "ok")

\* An update with patch semantics: the plain column keeps its old value.
UpdatePatch(e, k, p) ==
    /\ UNCHANGED <<formVars, errVars, valVars, seedVars, viewVars>>
    /\ IF k \notin DOMAIN tables[e]
       THEN /\ tables' = tables
            /\ last' = Outcome("update", e, k, p, "NotFound")
       ELSE IF ~RefsExist(tables, e, p)
       THEN /\ tables' = tables
            /\ last' = Outcome("update", e, k, p, "ConstraintViolation")
       ELSE /\ tables' = Put(tables, e, k,
                             [p EXCEPT ![DataField(e)] = tables[e][k][DataField(e)]])
            /\ last' = Outcome("update", e, k, p, "ok")

\* update(key, fields): full-record replacement.
Update(e, k, p) ==
    /\ UNCHANGED <<formVars, errVars, valVars, seedVars, viewVars>>
    /\ IF k \notin DOMAIN tables[e]
       THEN /\ tables' = tables
            /\ last' = Outcome("update", e, k, p, "NotFound")
       ELSE IF ~RefsExist(tables, e, p)
       THEN /\ tables' = tables
            /\ last' = Outcome("update", e, k, p, "ConstraintViolation")
       ELSE /\ tables' = Put(tables, e, k, p)
            /\ last' = Outcome("update", e, k, p, "ok")

\* A delete that removes the row whether or not other rows reference it.
DeleteUnchecked(e, k) ==
    /\ UNCHANGED <<formVars, errVars, valVars, seedVars, viewVars>>
    /\ IF k \notin DOMAIN tables[e]
       THEN /\ tables' = tables
            /\ last' = Outcome("delete", e, k, NoPayload, "NotFound")
       ELSE /\ tables' = Remove(tables, e, k)
            /\ last' = Outcome("delete", e, k, NoPayload, "ok")

\* delete(key): rejected, not cascaded, when dependents exist.
Delete(e, k) ==
    /\ UNCHANGED <<formVars, errVars, valVars, seedVars, viewVars>>
    /\ IF k \notin DOMAIN tables[e]
       THEN /\ tables' = tables
            /\ last' = Outcome("delete", e, k, NoPayload, "NotFound")
       ELSE IF Dependents(tables, e, k) # {}
       THEN /\ tables' = tables
            /\ last' = Outcome("delete", e, k, NoPayload, "ConstraintViolation")
       ELSE /\ tables' = Remove(tables, e, k)
            /\ last' = Outcome("delete", e, k, NoPayload, "ok")

(***************************************************************************)
(* Section 2. JavaScript values and the numeric conversions the validators *)
(* use.  A JS value is a string or a number; a number is carried by its    *)
(* canonical text (String(n)), so that `===` can tell 1 from "1".          *)
(***************************************************************************)
Str(s) == [t |-> "string", v |-> s]
Num(s) == [t |-> "number", v |-> s]
Empty == Str("")
Null == [t |-> "null", v |-> ""]
Undefined == [t |-> "undefined", v |-> ""]
Absent(a) == a.t \in {"null", "undefined"}

\* a === b
StrictEq(a, b) == a.t = b.t /\ a.v = b.v

\* !a : null, undefined, the empty string, 0 and NaN are falsy
Falsy(a) == a.v = "" \/ (a.t = "number" /\ a.v \in {"0", "NaN"})

\* a || ''
OrEmpty(a) == IF Falsy(a) THEN Empty ELSE a

Char(s, i) == SubSeq(s, i, i)

Digits == {"0", "1", "2", "3", "4", "5", "6", "7", "8", "9"}

DigitVal(c) ==
    CASE c = "0" -> 0 [] c = "1" -> 1 [] c = "2" -> 2 [] c = "3" -> 3 [] c = "4" -> 4
      [] c = "5" -> 5 [] c = "6" -> 6 [] c = "7" -> 7 [] c = "8" -> 8 [] c = "9" -> 9

\* The index after the run of digits of s that starts at i.
RECURSIVE DigitsEnd(_, _)
DigitsEnd(s, i) ==
    IF i <= Len(s) /\ Char(s, i) \in Digits THEN DigitsEnd(s, i + 1) ELSE i

\* The value of the digits s[i..j-1], read in base 10.
RECURSIVE DigitsVal(_, _, _)
DigitsVal(s, i, j) ==
    IF i >= j THEN 0 ELSE DigitsVal(s, i, j - 1) * 10 + DigitVal(Char(s, j - 1))

RECURSIVE Pow10(_)
Pow10(k) == IF k <= 0 THEN 1 ELSE 10 * Pow10(k - 1)

WhiteSpace == {" "}

\* s.trim()
RECURSIVE TrimStart(_)
TrimStart(s) ==
    IF Len(s) > 0 /\ Char(s, 1) \in WhiteSpace THEN TrimStart(Tail(s)) ELSE s

RECURSIVE TrimEnd(_)
TrimEnd(s) ==
    IF Len(s) > 0 /\ Char(s, Len(s)) \in WhiteSpace
    THEN TrimEnd(SubSeq(s, 1, Len(s) - 1)) ELSE s

Trim(s) == TrimEnd(TrimStart(s))

\* The longest prefix of s that is a StrDecimalLiteral: an optional sign,
\* digits with an optional fraction (or a fraction alone), and an exponent
\* when at least one exponent digit follows.  ok is FALSE when there is none.
\* The literal denotes sign * n * 10^exp, n being the integer and fraction
\* digits read together; end is the index after the prefix.
\* The exponent: s[m1] is e or E, e0 the index after its sign, e1 the index
\* after its digits.
ScanExponent(s, ok, neg, n, nFrac, m1, expNeg, e0, e1) ==
    IF e1 > e0
    THEN [ok |-> ok, neg |-> neg, n |-> n, end |-> e1,
          exp |-> (IF expNeg THEN 0 - DigitsVal(s, e0, e1) ELSE DigitsVal(s, e0, e1)) - nFrac]
    ELSE [ok |-> ok, neg |-> neg, n |-> n, end |-> m1, exp |-> 0 - nFrac]

ScanAfterMantissa(s, ok, neg, n, nFrac, m1) ==
    IF m1 <= Len(s) /\ Char(s, m1) \in {"e", "E"}
    THEN IF m1 + 1 <= Len(s) /\ Char(s, m1 + 1) \in {"-", "+"}
         THEN ScanExponent(s, ok, neg, n, nFrac, m1, Char(s, m1 + 1) = "-", m1 + 2,
                           DigitsEnd(s, m1 + 2))
         ELSE ScanExponent(s, ok, neg, n, nFrac, m1, FALSE, m1 + 1, DigitsEnd(s, m1 + 1))
    ELSE [ok |-> ok, neg |-> neg, n |-> n, end |-> m1, exp |-> 0 - nFrac]

\* The mantissa: integer digits s[i0..i1-1], and fraction digits s[i1+1..f1-1]
\* when s[i1] is a dot (f1 = i1 when it is not).
ScanMantissa(s, neg, i0, i1, f1) ==
    IF f1 > i1
    THEN ScanAfterMantissa(s, f1 - i0 - 1 > 0, neg,
                           DigitsVal(s, i0, i1) * Pow10(f1 - i1 - 1) + DigitsVal(s, i1 + 1, f1),
                           f1 - i1 - 1, f1)
    ELSE ScanAfterMantissa(s, i1 - i0 > 0, neg, DigitsVal(s, i0, i1), 0, i1)

ScanInteger(s, neg, i0, i1) ==
    ScanMantissa(s, neg, i0, i1,
                 IF i1 <= Len(s) /\ Char(s, i1) = "." THEN DigitsEnd(s, i1 + 1) ELSE i1)

ScanDecimal(s) ==
    IF Len(s) >= 1 /\ Char(s, 1) \in {"-", "+"}
    THEN ScanInteger(s, Char(s, 1) = "-", 2, DigitsEnd(s, 2))
    ELSE ScanInteger(s, FALSE, 1, DigitsEnd(s, 1))

\* The number of decimal digits of a natural number (0 has none).
RECURSIVE NumDigits(_)
NumDigits(n) == IF n = 0 THEN 0 ELSE 1 + NumDigits(n \div 10)

\* The number of trailing zero digits of a positive natural number.
RECURSIVE TrailingZeros(_)
TrailingZeros(n) == IF n = 0 \/ n % 10 # 0 THEN 0 ELSE 1 + TrailingZeros(n \div 10)

NaN == [kind |-> "NaN", neg |-> FALSE, n |-> 0, exp |-> 0]
Infinity(neg) == [kind |-> "Infinity", neg |-> neg, n |-> 0, exp |-> 0]

\* The double a decimal literal denotes: sign * n * 10^exp, Infinity above
\* the largest double (1.79e308) and 0 below the smallest (4.9e-324).
ToDouble(d) ==
    IF d.n = 0 THEN [kind |-> "finite", neg |-> d.neg, n |-> 0, exp |-> 0]
    ELSE IF NumDigits(d.n) + d.exp > 309 THEN Infinity(d.neg)
    ELSE IF NumDigits(d.n) + d.exp < 0 - 323
         THEN [kind |-> "finite", neg |-> d.neg, n |-> 0, exp |-> 0]
    ELSE [kind |-> "finite", neg |-> d.neg, n |-> d.n, exp |-> d.exp]

\* parseFloat(String(v)): the longest numeric prefix after leading blanks.
FloatOfPrefix(a, d) == IF a.v = "NaN" \/ ~d.ok THEN NaN ELSE ToDouble(d)

ParseFloat(a) == FloatOfPrefix(a, ScanDecimal(TrimStart(a.v)))

\* Number(v): the whole text must be a numeric literal; blank text is 0.
NumberOfText(a, s, d) ==
    IF s = "" THEN [kind |-> "finite", neg |-> FALSE, n |-> 0, exp |-> 0]
    ELSE IF a.v = "NaN" \/ ~d.ok \/ d.end # Len(s) + 1 THEN NaN
    ELSE ToDouble(d)

ToNumber(a) == NumberOfText(a, Trim(a.v), ScanDecimal(Trim(a.v)))

\* parseInt(String(v)): sign and leading digits, NaN when there is no digit.
IntOfDigits(s, neg, i0, i1) ==
    IF i1 = i0 THEN NaN
    ELSE [kind |-> "finite", neg |-> neg, n |-> DigitsVal(s, i0, i1), exp |-> 0]

IntOfText(s) ==
    IF Len(s) >= 1 /\ Char(s, 1) \in {"-", "+"}
    THEN IntOfDigits(s, Char(s, 1) = "-", 2, DigitsEnd(s, 2))
    ELSE IntOfDigits(s, FALSE, 1, DigitsEnd(s, 1))

ParseInt(a) == IntOfText(TrimStart(a.v))

IsNaN(x) == x.kind = "NaN"
IsFiniteNum(x) == x.kind = "finite"

\* x > 0
Positive(x) ==
    \/ x.kind = "Infinity" /\ ~x.neg
    \/ x.kind = "finite" /\ ~x.neg /\ x.n > 0

\* The count of integer digits of |x| (x finite, not 0): |x| >= 10^(k-1).
IntDigits(x) == NumDigits(x.n) + x.exp

\* x > 999999.99, for a decimal x
AboveMaxAmount(x) ==
    \/ x.kind = "Infinity" /\ ~x.neg
    \/ x.kind = "finite" /\ ~x.neg /\ x.n > 0 /\ IntDigits(x) >= 7

\* The number of fractional decimal digits of a finite number.
FracDigits(x) ==
    IF x.n = 0 THEN 0
    ELSE LET k == 0 - x.exp - TrailingZeros(x.n) IN IF k > 0 THEN k ELSE 0

\* An integer-valued finite number as an integer (for small values).
IsInteger(x) == x.kind = "finite" /\ FracDigits(x) = 0
IntValue(x) == (IF x.neg THEN 0 - x.n ELSE x.n)

(***************************************************************************)
(* Section 3. The JavaScript Date, as far as the forms use it: parsing an  *)
(* ISO text, reading the local fields back, comparing two dates.  A time   *)
(* value is a count of seconds since 1970-01-01T00:00:00Z.                 *)
(***************************************************************************)
\* Days from 1970-01-01 to the civil date y-m-d (proleptic Gregorian); yy is
\* the year counted from March, yoe the year of its 400-year era.
DaysOfEra(era, yoe, doy) == era * 146097 + yoe * 365 + yoe \div 4 - yoe \div 100 + doy - 719468

DaysFromMarch(yy, mp, d) ==
    DaysOfEra(yy \div 400, yy % 400, (153 * mp + 2) \div 5 + d - 1)

DaysFromCivil(y, m, d) ==
    IF m <= 2 THEN DaysFromMarch(y - 1, m + 9, d) ELSE DaysFromMarch(y, m - 3, d)

\* The civil date of a day count.
CivilOfMonth(y, mp, d) ==
    IF mp < 10 THEN [year |-> y, month |-> mp + 3, day |-> d]
    ELSE [year |-> y + 1, month |-> mp - 9, day |-> d]

CivilOfDayOfYear(y, doy, mp) == CivilOfMonth(y, mp, doy - (153 * mp + 2) \div 5 + 1)

CivilOfYear(era, doe, yoe) ==
    CivilOfDayOfYear(yoe + era * 400,
                     doe - (365 * yoe + yoe \div 4 - yoe \div 100),
                     (5 * (doe - (365 * yoe + yoe \div 4 - yoe \div 100)) + 2) \div 153)

CivilOfEra(era, doe) ==
    CivilOfYear(era, doe,
                (doe - doe \div 1460 + doe \div 36524 - doe \div 146096) \div 365)

CivilFromDays(z) == CivilOfEra((z + 719468) \div 146097, (z + 719468) % 146097)

\* A browser time zone: standard and daylight offsets from UTC in seconds,
\* and the instants between which daylight time is in force.
UTC == [name |-> "UTC", std |-> 0, dst |-> 0, dstStart |-> 0, dstEnd |-> 0]

\* America/Toronto in 2024: daylight time from 10 March 07:00Z to 3 November 06:00Z.
Toronto ==
    [name |-> "America/Toronto", std |-> 0 - 18000, dst |-> 0 - 14400,
     dstStart |-> DaysFromCivil(2024, 3, 10) * 86400 + 7 * 3600,
     dstEnd   |-> DaysFromCivil(2024, 11, 3) * 86400 + 6 * 3600]

Tokyo == [name |-> "Asia/Tokyo", std |-> 32400, dst |-> 32400, dstStart |-> 0, dstEnd |-> 0]

TimeZones == {UTC, Toronto, Tokyo}

\* The offset of local time from UTC at instant t.
UtcOffset(tz, t) == IF tz.dstStart <= t /\ t < tz.dstEnd THEN tz.dst ELSE tz.std

\* The instant a local wall-clock count w denotes.  A repeated local time is
\* the earlier instant; a skipped one is read with the offset in force before
\* the transition (ECMA-262 21.4.1.26 UTC(t)).
LocalToUtc(tz, w) ==
    LET a == w - tz.std
        b == w - tz.dst
        okA == UtcOffset(tz, a) = tz.std
        okB == UtcOffset(tz, b) = tz.dst
    IN IF okA /\ okB THEN (IF a < b THEN a ELSE b)
       ELSE IF okB THEN b
       ELSE a

InvalidDate == [valid |-> FALSE, t |-> 0]

AllDigits(s, i, j) == \A x \in i..j : Char(s, x) \in Digits

\* new Date(text): YYYY-MM-DD is UTC midnight; YYYY-MM-DDTHH:mm and
\* YYYY-MM-DDTHH:mm:ss are local time; any other text here is an Invalid Date.
IsoDate(s) ==
    /\ Len(s) >= 10
    /\ AllDigits(s, 1, 4) /\ Char(s, 5) = "-"
    /\ AllDigits(s, 6, 7) /\ Char(s, 8) = "-"
    /\ AllDigits(s, 9, 10)

IsoTime(s) ==
    /\ Len(s) \in {16, 19}
    /\ Char(s, 11) = "T"
    /\ AllDigits(s, 12, 13) /\ Char(s, 14) = ":"
    /\ AllDigits(s, 15, 16)
    /\ Len(s) = 19 => (Char(s, 17) = ":" /\ AllDigits(s, 18, 19))

DateOfFields(tz, mo, d, h, mi, se, days, dateOnly) ==
    IF mo \notin 1..12 \/ d \notin 1..31 THEN InvalidDate
    ELSE IF dateOnly THEN [valid |-> TRUE, t |-> days * 86400]
    ELSE IF h > 23 \/ mi > 59 \/ se > 59 THEN InvalidDate
    ELSE [valid |-> TRUE, t |-> LocalToUtc(tz, days * 86400 + h * 3600 + mi * 60 + se)]

NewDate(tz, s) ==
    IF ~IsoDate(s) \/ (Len(s) # 10 /\ ~IsoTime(s)) THEN InvalidDate
    ELSE DateOfFields(tz, DigitsVal(s, 6, 8), DigitsVal(s, 9, 11),
                      IF Len(s) = 10 THEN 0 ELSE DigitsVal(s, 12, 14),
                      IF Len(s) = 10 THEN 0 ELSE DigitsVal(s, 15, 17),
                      IF Len(s) = 19 THEN DigitsVal(s, 18, 20) ELSE 0,
                      DaysFromCivil(DigitsVal(s, 1, 5), DigitsVal(s, 6, 8), DigitsVal(s, 9, 11)),
                      Len(s) = 10)

\* The local fields of a date: getFullYear(), getMonth() + 1, getDate(),
\* getHours(), getMinutes(), getSeconds().
FieldsOfLocal(c, sec) ==
    [year |-> c.year, month |-> c.month, day |-> c.day,
     hours |-> sec \div 3600, minutes |-> (sec % 3600) \div 60, seconds |-> sec % 60]

FieldsOfWallClock(w) == FieldsOfLocal(CivilFromDays(w \div 86400), w % 86400)

LocalFields(tz, date) == FieldsOfWallClock(date.t + UtcOffset(tz, date.t))

\* String(n).padStart(2, '0')
Pad2(n) == IF n < 10 THEN "0" \o ToString(n) ELSE ToString(n)

\* a > b on dates: false when either is an Invalid Date.
DateGreater(a, b) == a.valid /\ b.valid /\ a.t > b.t

(***************************************************************************)
(* Section 4. utils/validation.js                                          *)
(***************************************************************************)
LowerLetters == {"a", "b", "c", "d", "e", "f", "g", "h", "i", "j", "k", "l", "m",
                 "n", "o", "p", "q", "r", "s", "t", "u", "v", "w", "x", "y", "z"}
UpperLetters == {"A", "B", "C", "D", "E", "F", "G", "H", "I", "J", "K", "L", "M",
                 "N", "O", "P", "Q", "R", "S", "T", "U", "V", "W", "X", "Y", "Z"}
Letters == LowerLetters \cup UpperLetters

AllIn(s, i, j, class) == \A x \in i..j : Char(s, x) \in class

\* /^[a-zA-Z0-9._%+-]+@[a-zA-Z0-9.-]+\.[a-zA-Z]{2,}$/.test(email.trim())
isValidEmail(email) ==
    IF Falsy(email) THEN FALSE
    ELSE LET s == Trim(email.v)
         IN \E at \in 2..Len(s) : \E dot \in (at + 2)..(Len(s) - 2) :
                /\ Char(s, at) = "@"
                /\ AllIn(s, 1, at - 1, Letters \cup Digits \cup {".", "_", "%", "+", "-"})
                /\ AllIn(s, at + 1, dot - 1, Letters \cup Digits \cup {".", "-"})
                /\ Char(s, dot) = "."
                /\ AllIn(s, dot + 1, Len(s), Letters)

\* phone.replace(/\D/g, '').length
RECURSIVE CountDigits(_)
CountDigits(s) ==
    IF s = "" THEN 0
    ELSE (IF Char(s, 1) \in Digits THEN 1 ELSE 0) + CountDigits(Tail(s))

isValidPhoneNumber(phone) ==
    IF Falsy(phone) THEN FALSE
    ELSE CountDigits(phone.v) >= 10 /\ CountDigits(phone.v) <= 11

\* !isNaN(parseFloat(value)) && isFinite(value)
isValidNumber(value) ==
    IF StrictEq(value, Empty) \/ Absent(value) THEN FALSE
    ELSE ~IsNaN(ParseFloat(value)) /\ IsFiniteNum(ToNumber(value))

isValidPositiveNumber(value) ==
    IF ~isValidNumber(value) THEN FALSE ELSE Positive(ParseFloat(value))

\* value.toString().indexOf('.'), 0 when there is no '.'
RECURSIVE IndexOfDot(_, _)
IndexOfDot(s, i) ==
    IF i > Len(s) THEN 0 ELSE IF Char(s, i) = "." THEN i ELSE IndexOfDot(s, i + 1)

hasValidDecimals(value, maxDecimals) ==
    IF ~isValidNumber(value) THEN FALSE
    ELSE LET decimalIndex == IndexOfDot(value.v, 1)
         IN IF decimalIndex = 0 THEN TRUE
            ELSE Len(value.v) - decimalIndex <= maxDecimals

\* The comparison n >= lo && n <= hi on a parseInt result: false on NaN.
IntInRange(x, lo, hi) == ~IsNaN(x) /\ IntValue(x) >= lo /\ IntValue(x) <= hi

isValidYear(year, minYear, maxYear) ==
    IF ~isValidNumber(year) THEN FALSE ELSE IntInRange(ParseInt(year), minYear, maxYear)

isValidRating(rating) ==
    IF ~isValidNumber(rating) THEN FALSE ELSE IntInRange(ParseInt(rating), 1, 5)

\* value.toString().trim().length > 0
isRequired(value) == IF Absent(value) THEN FALSE ELSE Len(Trim(value.v)) > 0

\* end > start, both parsed by new Date
isAfter(tz, startDatetime, endDatetime) ==
    IF Falsy(startDatetime) \/ Falsy(endDatetime) THEN FALSE
    ELSE DateGreater(NewDate(tz, endDatetime.v), NewDate(tz, startDatetime.v))

UpperCaseText == "ABCDEFGHIJKLMNOPQRSTUVWXYZ"
LowerCaseText == "abcdefghijklmnopqrstuvwxyz"

RECURSIVE ToLowerCase(_)
ToLowerCase(s) ==
    IF s = "" THEN ""
    ELSE LET c == Char(s, 1)
             l == IF c \in UpperLetters
                  THEN Char(LowerCaseText, CHOOSE i \in 1..26 : Char(UpperCaseText, i) = c)
                  ELSE c
         IN l \o ToLowerCase(Tail(s))

\* s.includes(sub)
Includes(s, sub) ==
    \E i \in 1..(Len(s) - Len(sub) + 1) : SubSeq(s, i, i + Len(sub) - 1) = sub

GenericError == "An error occurred"
DuplicateError == "This value already exists in the database. Please use a different value."
ReferencedError ==
    "Cannot delete this record because it is referenced by other records. Please delete the dependent records first."

formatForeignKeyError(errorMessage) ==
    LET lowerMsg == ToLowerCase(errorMessage)
    IN IF errorMessage = "" THEN GenericError
       ELSE IF Includes(lowerMsg, "foreign key") \/ Includes(lowerMsg, "constraint")
       THEN IF Includes(lowerMsg, "customer")
            THEN "Cannot delete this customer because they have associated rides. Please delete the rides first."
            ELSE IF Includes(lowerMsg, "driver")
            THEN "Cannot delete this driver because they have associated vehicles or rides. Please delete those records first."
            ELSE IF Includes(lowerMsg, "vehicle")
            THEN "Cannot delete this vehicle because it has associated rides. Please delete the rides first."
            ELSE IF Includes(lowerMsg, "location")
            THEN "Cannot delete this location because it is used in existing rides. Please delete those rides first."
            ELSE IF Includes(lowerMsg, "ride")
            THEN "Cannot delete this ride because it has associated payments or ratings. Please delete those records first."
            ELSE ReferencedError
       ELSE IF Includes(lowerMsg, "unique") \/ Includes(lowerMsg, "duplicate")
       THEN DuplicateError
       ELSE errorMessage

\* The rejections of the API client carry a message; a rejection whose
\* message is empty has no other text to fall back on.
getErrorMessage(error) ==
    IF error.message # "" THEN formatForeignKeyError(error.message)
    ELSE "An unexpected error occurred"

(***************************************************************************)
(* Section 5. services/api.js: the response error interceptor.             *)
(***************************************************************************)
\* What comes back for a request that fails: an HTTP error response with
\* the envelope's error string ("" when the envelope has none), or nothing.
ErrorResponse(status, error) == [kind |-> "response", status |-> status, error |-> error]
NoResponse == [kind |-> "noResponse", status |-> 0, error |-> ""]

\* timeout: 10000 of axios.create, in milliseconds
timeout == 10000

\* The errors axios raises for a request that got no response, each with
\* its own message: the timer of the request ran out, the connection
\* failed, the request was aborted.
TimedOut == [kind |-> "noResponse", status |-> 0, error |-> "timeout of 10000ms exceeded"]
ConnectionFailed == [kind |-> "noResponse", status |-> 0, error |-> "Network Error"]
RequestAborted == [kind |-> "noResponse", status |-> 0, error |-> "Request aborted"]

\* An error raised before the request left (error.request is not set).
SetupError(error) == [kind |-> "setup", status |-> 0, error |-> error]

NetworkError ==
    "Network error. Please check your connection and ensure the backend server is running."

\* An interceptor that hands on the message of the axios error.
InterceptorOwnMessage(failure) ==
    IF failure.kind = "response"
    THEN [message |-> IF failure.error = "" THEN GenericError ELSE failure.error,
          status |-> failure.status]
    ELSE [message |-> IF failure.error = "" THEN NetworkError ELSE failure.error,
          status |-> 0]

\* error.response: error.response.data.error || 'An error occurred';
\* error.request: the fixed network text; otherwise error.message ||
\* 'An unexpected error occurred'
Interceptor(failure) ==
    IF failure.kind = "response"
    THEN [message |-> IF failure.error = "" THEN GenericError ELSE failure.error,
          status |-> failure.status]
    ELSE IF failure.kind = "noResponse"
    THEN [message |-> NetworkError, status |-> 0]
    ELSE [message |-> IF failure.error = "" THEN "An unexpected error occurred"
                      ELSE failure.error,
          status |-> -1]

(***************************************************************************)
(* Section 6. The entity forms.  formData maps a field name to a JS value; *)
(* errors maps a field name to its message, "" when it has none.           *)
(***************************************************************************)
NoForm == "none"

FormFields(f) ==
    CASE f = "Customer" -> {"customer_name", "phone_number", "email"}
      [] f = "Driver"   -> {"driver_name", "phone_number", "license_number"}
      [] f = "Vehicle"  -> {"vehicle_vin", "model", "color", "registration_year", "driver_id"}
      [] f = "Location" -> {"address", "city", "postal_code"}
      [] f = "Ride"     -> {"customer_id", "driver_id", "vehicle_vin", "pickup_location",
                            "dropoff_location", "start_time", "arrival_time"}
      [] f = "Payment"  -> {"ride_id", "amount", "payment_method", "payment_status",
                            "payment_date"}
      [] f = "Rating"   -> {"ride_id", "customer_rating", "driver_rating", "comments"}

\* useState({ ...: '' })
InitialFormData(f) == [name \in FormFields(f) |-> Empty]
NoErrors(f) == [name \in FormFields(f) |-> ""]

\* The forms that load dropdown data when they mount.
LoadsData(f) == f \in {"Vehicle", "Ride", "Payment", "Rating"}

\* The key the update call is addressed to.
IdField(f) ==
    CASE f = "Customer" -> "customer_id"
      [] f = "Driver"   -> "driver_id"
      [] f = "Vehicle"  -> "vehicle_vin"
      [] f = "Location" -> "location_id"
      [] f = "Ride"     -> "ride_id"
      [] f = "Payment"  -> "transaction_id"
      [] f = "Rating"   -> "rating_id"

\* `${year}-${month}-${day}` of the local fields, and the longer formats.
DateText(l) == ToString(l.year) \o "-" \o Pad2(l.month) \o "-" \o Pad2(l.day)
MinutesText(l) == DateText(l) \o "T" \o Pad2(l.hours) \o ":" \o Pad2(l.minutes)
SecondsText(l) == MinutesText(l) \o ":" \o Pad2(l.seconds)

\* Every field of an Invalid Date is NaN, which padStart leaves as it is.
FormatDate(tz, date) ==
    IF ~date.valid THEN "NaN-NaN-NaN" ELSE DateText(LocalFields(tz, date))

FormatMinutes(tz, date) ==
    IF ~date.valid THEN "NaN-NaN-NaNTNaN:NaN" ELSE MinutesText(LocalFields(tz, date))

FormatSeconds(tz, date) ==
    IF ~date.valid THEN "NaN-NaN-NaNTNaN:NaN:NaN" ELSE SecondsText(LocalFields(tz, date))

\* RideForm: formatForInput, formatForBackend
RideFormatForInput(tz, dateTimeStr) ==
    IF Falsy(dateTimeStr) THEN Empty ELSE Str(FormatMinutes(tz, NewDate(tz, dateTimeStr.v)))
RideFormatForBackend(tz, dateTimeStr) == Str(FormatSeconds(tz, NewDate(tz, dateTimeStr.v)))

\* PaymentForm: formatForInput, formatForBackend
PaymentFormatForInput(tz, dateStr) ==
    IF Falsy(dateStr) THEN Empty ELSE Str(FormatDate(tz, NewDate(tz, dateStr.v)))
PaymentFormatForBackend(tz, dateStr) == Str(FormatDate(tz, NewDate(tz, dateStr.v)))

\* The populate effect of each form: setFormData from the row being edited.
Populate(f, row, tz) ==
    [name \in FormFields(f) |->
        IF f = "Ride" /\ name \in {"start_time", "arrival_time"}
        THEN RideFormatForInput(tz, row[name])
        ELSE IF f = "Payment" /\ name = "payment_date"
        THEN PaymentFormatForInput(tz, row[name])
        ELSE OrEmpty(row[name])]

TrimLength(a) == Len(Trim(a.v))

\* validateForm of each form: the message newErrors gets for one field, ""
\* when the field passes.
CustomerError(fd, name) ==
    CASE name = "customer_name" ->
            IF ~isRequired(fd.customer_name) THEN "Customer name is required"
            ELSE IF TrimLength(fd.customer_name) < 2
            THEN "Customer name must be at least 2 characters" ELSE ""
      [] name = "phone_number" ->
            IF ~isRequired(fd.phone_number) THEN "Phone number is required"
            ELSE IF ~isValidPhoneNumber(fd.phone_number)
            THEN "Please enter a valid phone number (e.g., 123-456-7890)" ELSE ""
      [] name = "email" ->
            IF ~isRequired(fd.email) THEN "Email is required"
            ELSE IF ~isValidEmail(fd.email)
            THEN "Please enter a valid email address (e.g., user@example.com)" ELSE ""

DriverError(fd, name) ==
    CASE name = "driver_name" ->
            IF ~isRequired(fd.driver_name) THEN "Driver name is required"
            ELSE IF TrimLength(fd.driver_name) < 2
            THEN "Driver name must be at least 2 characters" ELSE ""
      [] name = "phone_number" ->
            IF ~isRequired(fd.phone_number) THEN "Phone number is required"
            ELSE IF ~isValidPhoneNumber(fd.phone_number)
            THEN "Please enter a valid phone number (e.g., 123-456-7890)" ELSE ""
      [] name = "license_number" ->
            IF ~isRequired(fd.license_number) THEN "License number is required"
            ELSE IF TrimLength(fd.license_number) < 5
            THEN "License number must be at least 5 characters" ELSE ""

VehicleError(fd, name, currentYear) ==
    CASE name = "vehicle_vin" ->
            IF ~isRequired(fd.vehicle_vin) THEN "VIN is required"
            ELSE IF TrimLength(fd.vehicle_vin) < 11 \/ TrimLength(fd.vehicle_vin) > 17
            THEN "VIN must be between 11 and 17 characters" ELSE ""
      [] name = "model" ->
            IF ~isRequired(fd.model) THEN "Model is required"
            ELSE IF TrimLength(fd.model) < 2
            THEN "Model must be at least 2 characters" ELSE ""
      [] name = "color" ->
            IF ~isRequired(fd.color) THEN "Color is required" ELSE ""
      [] name = "registration_year" ->
            IF ~isRequired(fd.registration_year) THEN "Registration year is required"
            ELSE IF ~isValidYear(fd.registration_year, 1900, currentYear + 1)
            THEN "Please enter a valid year between 1900 and " \o ToString(currentYear + 1)
            ELSE ""
      [] name = "driver_id" ->
            IF Falsy(fd.driver_id) THEN "Please select a driver" ELSE ""

LocationError(fd, name) ==
    CASE name = "address" ->
            IF ~isRequired(fd.address) THEN "Address is required"
            ELSE IF TrimLength(fd.address) < 5
            THEN "Address must be at least 5 characters" ELSE ""
      [] name = "city" ->
            IF ~isRequired(fd.city) THEN "City is required"
            ELSE IF TrimLength(fd.city) < 2
            THEN "City must be at least 2 characters" ELSE ""
      [] name = "postal_code" ->
            IF ~isRequired(fd.postal_code) THEN "Postal code is required"
            ELSE IF TrimLength(fd.postal_code) < 3
            THEN "Postal code must be at least 3 characters" ELSE ""

RideError(fd, name, tz) ==
    CASE name = "customer_id" ->
            IF Falsy(fd.customer_id) THEN "Please select a customer" ELSE ""
      [] name = "driver_id" ->
            IF Falsy(fd.driver_id) THEN "Please select a driver" ELSE ""
      [] name = "vehicle_vin" ->
            IF Falsy(fd.vehicle_vin) THEN "Please select a vehicle" ELSE ""
      [] name = "pickup_location" ->
            IF Falsy(fd.pickup_location) THEN "Please select a pickup location" ELSE ""
      [] name = "dropoff_location" ->
            IF Falsy(fd.dropoff_location) THEN "Please select a dropoff location"
            ELSE IF StrictEq(fd.pickup_location, fd.dropoff_location)
            THEN "Dropoff location must be different from pickup location" ELSE ""
      [] name = "start_time" ->
            IF ~isRequired(fd.start_time) THEN "Start time is required" ELSE ""
      [] name = "arrival_time" ->
            IF ~isRequired(fd.arrival_time) THEN "Arrival time is required"
            ELSE IF ~isAfter(tz, fd.start_time, fd.arrival_time)
            THEN "Arrival time must be after start time" ELSE ""

PaymentError(fd, name) ==
    CASE name = "ride_id" ->
            IF Falsy(fd.ride_id) THEN "Please select a ride" ELSE ""
      [] name = "amount" ->
            IF ~isRequired(fd.amount) THEN "Amount is required"
            ELSE IF ~isValidPositiveNumber(fd.amount)
            THEN "Amount must be a positive number"
            ELSE IF ~hasValidDecimals(fd.amount, 2)
            THEN "Amount must have at most 2 decimal places"
            ELSE IF AboveMaxAmount(ParseFloat(fd.amount))
            THEN "Amount cannot exceed $999,999.99" ELSE ""
      [] name = "payment_method" ->
            IF Falsy(fd.payment_method) THEN "Please select a payment method" ELSE ""
      [] name = "payment_status" ->
            IF Falsy(fd.payment_status) THEN "Please select a payment status" ELSE ""
      [] name = "payment_date" ->
            IF ~isRequired(fd.payment_date) THEN "Payment date is required" ELSE ""

RatingError(fd, name) ==
    CASE name = "ride_id" ->
            IF Falsy(fd.ride_id) THEN "Please select a ride" ELSE ""
      [] name = "customer_rating" ->
            IF ~isRequired(fd.customer_rating) THEN "Customer rating is required"
            ELSE IF ~isValidRating(fd.customer_rating)
            THEN "Customer rating must be between 1 and 5" ELSE ""
      [] name = "driver_rating" ->
            IF ~isRequired(fd.driver_rating) THEN "Driver rating is required"
            ELSE IF ~isValidRating(fd.driver_rating)
            THEN "Driver rating must be between 1 and 5" ELSE ""
      [] name = "comments" -> ""

\* validateForm: newErrors, and whether it has no key.
validateForm(f, fd, e) ==
    [name \in FormFields(f) |->
        CASE f = "Customer" -> CustomerError(fd, name)
          [] f = "Driver"   -> DriverError(fd, name)
          [] f = "Vehicle"  -> VehicleError(fd, name, e.currentYear)
          [] f = "Location" -> LocationError(fd, name)
          [] f = "Ride"     -> RideError(fd, name, e.tz)
          [] f = "Payment"  -> PaymentError(fd, name)
          [] f = "Rating"   -> RatingError(fd, name)]

HasError(errs) == \E name \in DOMAIN errs : errs[name] # ""

\* submitData of each form: what is handed to the service's create or update.
RideSubmitData(fd, tz) ==
    [fd EXCEPT !.start_time = RideFormatForBackend(tz, fd.start_time),
               !.arrival_time = RideFormatForBackend(tz, fd.arrival_time)]

PaymentSubmitData(fd, tz) ==
    [fd EXCEPT !.amount = ParseFloat(fd.amount),
               !.payment_date = PaymentFormatForBackend(tz, fd.payment_date)]

RatingSubmitDataFloat(fd) ==
    [ride_id |-> ParseInt(fd.ride_id),
     customer_rating |-> ParseFloat(fd.customer_rating),
     driver_rating |-> ParseFloat(fd.driver_rating),
     comments |-> IF Falsy(fd.comments) THEN Null ELSE fd.comments]

RatingSubmitData(fd) ==
    [ride_id |-> ParseInt(fd.ride_id),
     customer_rating |-> ParseInt(fd.customer_rating),
     driver_rating |-> ParseInt(fd.driver_rating),
     comments |-> IF Falsy(fd.comments) THEN Null ELSE fd.comments]

SubmitData(f, fd, tz) ==
    CASE f = "Ride"    -> RideSubmitData(fd, tz)
      [] f = "Payment" -> PaymentSubmitData(fd, tz)
      [] f = "Rating"  -> RatingSubmitData(fd)
      [] OTHER         -> fd

\* The message handed to onSuccess.
SuccessText(f, isEditMode) ==
    f \o (IF isEditMode THEN " updated successfully" ELSE " created successfully")

\* What the controls of a form can deliver for a field.
TimeInputs == {"2024-03-10T02:30", "2024-03-10T03:15", "2024-03-10T03:30"}

AmountInputs == {"0", "-1", "abc", "15.5", "15.555", "999999.99", "1000000", "1e3",
                 "1e-3", "1e999"}

Texts(f, name) ==
    CASE name \in {"customer_name", "driver_name"} -> {"A", "Al"}
      [] name = "phone_number"      -> {"555-0101", "416-555-0101"}
      [] name = "email"             -> {"al@x", "al@x.io"}
      [] name = "license_number"    -> {"D123", "D1234"}
      [] name = "vehicle_vin"       -> IF f = "Vehicle" THEN {"1HGBH41JXM", "1HGBH41JXMN"}
                                       ELSE {"1HGBH41JXMN"}
      [] name = "model"             -> {"C", "CR"}
      [] name = "color"             -> {"Red"}
      [] name = "registration_year" -> {"1899", "2027", "2028"}
      [] name \in {"customer_id", "driver_id", "ride_id"} -> {"1"}
      [] name = "address"           -> {"12 A", "12 Ab"}
      [] name = "city"              -> {"T", "To"}
      [] name = "postal_code"       -> {"M5", "M5H"}
      [] name \in {"pickup_location", "dropoff_location"} -> {"1", "2"}
      [] name \in {"start_time", "arrival_time"} -> TimeInputs
      [] name = "amount"            -> AmountInputs
      [] name = "payment_method"    -> {"Cash"}
      [] name = "payment_status"    -> {"Completed"}
      [] name = "payment_date"      -> {"2024-01-15"}
      [] name \in {"customer_rating", "driver_rating"} -> {"0", "1", "5", "6", "4.5", "5e-1"}
      [] name = "comments"          -> {"ok"}

\* In the ride form the user picks and types but does not go back to the
\* placeholder option or clear a time (the empty fields of that form are
\* those of a new ride); every other control can be emptied again.
Inputs(f, name) ==
    {Str(s) : s \in Texts(f, name)} \cup (IF f = "Ride" THEN {} ELSE {Empty})

\* The rows a list view can hand to its form, as the API returns them.
EditRows(f) ==
    CASE f = "Customer" ->
            {[customer_id |-> Num("1"), customer_name |-> Str("Al"),
              phone_number |-> Str("416-555-0101"), email |-> Str("al@x.io")]}
      [] f = "Driver" ->
            {[driver_id |-> Num("1"), driver_name |-> Str("Jo"),
              phone_number |-> Str("416-555-0101"), license_number |-> Str("D1234")]}
      [] f = "Vehicle" ->
            {[vehicle_vin |-> Str("1HGBH41JXMN"), model |-> Str("CR"), color |-> Str("Red"),
              registration_year |-> Num("2020"), driver_id |-> Num("1")]}
      [] f = "Location" ->
            {[location_id |-> Num("1"), address |-> Str("12 Ab"), city |-> Str("To"),
              postal_code |-> Str("M5H")]}
      [] f = "Ride" ->
            {[ride_id |-> Num("1"), customer_id |-> Num("1"), driver_id |-> Num("1"),
              vehicle_vin |-> Str("1HGBH41JXMN"),
              pickup_location |-> Num("1"), dropoff_location |-> Num("2"),
              start_time |-> Str("2024-03-10T01:30:00"),
              arrival_time |-> Str("2024-03-10T03:30:00")]}
      [] f = "Payment" ->
            {[transaction_id |-> Num("1"), ride_id |-> Num("1"), amount |-> Num("15.5"),
              payment_method |-> Str("Cash"), payment_status |-> Str("Completed"),
              payment_date |-> Str("2024-01-15")]}
      [] f = "Rating" ->
            {[rating_id |-> Num("1"), ride_id |-> Num("1"), customer_rating |-> Num("3"),
              driver_rating |-> Num("4"), comments |-> Null]}

CurrentYears == {2026}
Envs == [tz : {UTC, Toronto}, currentYear : CurrentYears]

NoRequest == [method |-> "none", entity |-> NoForm, key |-> Null, data |-> <<>>]

\* The failures a write can come back with.
FormFailures ==
    {ErrorResponse(400, "Missing required field"),
     ErrorResponse(409, "ORA-02291: integrity constraint violated - parent key not found"),
     NoResponse}

isEditMode == editing # Null

\* Whether the user can reach the control or button at all.
FormShown == form # NoForm /\ (loadingData => form = "Vehicle")

\* Inputs that stay enabled while the request is in flight.
EditableWhileSubmitting(name) ==
    /\ ~(form = "Vehicle" /\ name = "vehicle_vin" /\ isEditMode)
    /\ ~(form = "Vehicle" /\ name = "driver_id" /\ loadingData)

\* disabled={submitting} on every input, and the two inputs of VehicleForm
\* with a second condition
Editable(name) ==
    /\ ~submitting
    /\ ~(form = "Vehicle" /\ name = "vehicle_vin" /\ isEditMode)
    /\ ~(form = "Vehicle" /\ name = "driver_id" /\ loadingData)

Unmounted ==
    /\ form' = NoForm
    /\ editing' = Null
    /\ formData' = <<>>
    /\ errors' = <<>>
    /\ submitting' = FALSE
    /\ apiError' = ""
    /\ loadingData' = FALSE
    /\ request' = NoRequest

\* A list view shows the form: useState initial values, the populate effect
\* and the start of loadAllData / loadDrivers.
Mount(f, row) ==
    /\ form = NoForm
    /\ form' = f
    /\ editing' = row
    /\ formData' = IF row = Null THEN InitialFormData(f) ELSE Populate(f, row, env.tz)
    /\ errors' = NoErrors(f)
    /\ submitting' = FALSE
    /\ apiError' = ""
    /\ loadingData' = LoadsData(f)
    /\ request' = NoRequest
    /\ event' = [type |-> "mount", message |-> ""]
    /\ UNCHANGED <<env, dbVars, errVars, valVars, seedVars, viewVars>>

\* loadAllData / loadDrivers, after the await.
LoadAllDataFulfilled ==
    /\ form # NoForm /\ loadingData
    /\ loadingData' = FALSE
    /\ event' = [type |-> "loaded", message |-> ""]
    /\ UNCHANGED <<env, form, editing, formData, errors, submitting, apiError, request,
                   dbVars, errVars, valVars, seedVars, viewVars>>

LoadAllDataRejected(failure) ==
    /\ form # NoForm /\ loadingData
    /\ apiError' = getErrorMessage(Interceptor(failure))
    /\ loadingData' = FALSE
    /\ event' = [type |-> "loadFailed", message |-> failure.error]
    /\ UNCHANGED <<env, form, editing, formData, errors, submitting, request,
                   dbVars, errVars, valVars, seedVars, viewVars>>

handleChange(name, value) ==
    /\ FormShown /\ Editable(name)
    /\ value # formData[name]
    /\ formData' = [formData EXCEPT ![name] = value]
    /\ errors' = [errors EXCEPT ![name] = ""]
    /\ apiError' = ""
    /\ event' = [type |-> "change", message |-> ""]
    /\ UNCHANGED <<env, form, editing, submitting, loadingData, request, dbVars, errVars, valVars, seedVars, viewVars>>

\* A handleSubmit that starts the request before it looks at the fields.
handleSubmitEager ==
    LET newErrors == validateForm(form, formData, env)
    IN /\ FormShown /\ ~submitting /\ ~loadingData
       /\ apiError' = ""
       /\ errors' = newErrors
       /\ submitting' = TRUE
       /\ request' = [method |-> IF isEditMode THEN "update" ELSE "create",
                      entity |-> form,
                      key    |-> IF isEditMode THEN editing[IdField(form)] ELSE Null,
                      data   |-> SubmitData(form, formData, env.tz)]
       /\ event' = [type |-> "submit", message |-> ""]
       /\ UNCHANGED <<env, form, editing, formData, loadingData, dbVars, errVars, valVars, seedVars, viewVars>>

\* handleSubmit, up to the await of the service call.
handleSubmit ==
    LET newErrors == validateForm(form, formData, env)
    IN /\ FormShown /\ ~submitting /\ ~loadingData
       /\ apiError' = ""
       /\ errors' = newErrors
       /\ IF HasError(newErrors)
          THEN UNCHANGED <<submitting, request>>
          ELSE /\ submitting' = TRUE
               /\ request' = [method |-> IF isEditMode THEN "update" ELSE "create",
                              entity |-> form,
                              key    |-> IF isEditMode THEN editing[IdField(form)] ELSE Null,
                              data   |-> SubmitData(form, formData, env.tz)]
       /\ event' = [type |-> "submit", message |-> ""]
       /\ UNCHANGED <<env, form, editing, formData, loadingData, dbVars, errVars, valVars, seedVars, viewVars>>

\* handleSubmit after the await resolved with a 2xx response whose envelope
\* has the success flag given: onSuccess(message), whatever the flag; every
\* list view's handleFormSuccess hides the form.
SubmitFulfilled(success) ==
    /\ request # NoRequest
    /\ event' = [type |-> "onSuccess", message |-> SuccessText(form, isEditMode),
                 success |-> success]
    /\ Unmounted
    /\ UNCHANGED <<env, dbVars, errVars, valVars, seedVars, viewVars>>

\* handleSubmit after the await rejected: the catch and the finally.
SubmitRejected(failure) ==
    /\ request # NoRequest
    /\ apiError' = getErrorMessage(Interceptor(failure))
    /\ submitting' = FALSE
    /\ request' = NoRequest
    /\ event' = [type |-> "rejected", message |-> failure.error]
    /\ UNCHANGED <<env, form, editing, formData, errors, loadingData, dbVars, errVars, valVars, seedVars, viewVars>>

\* The close button of the error banner: onClose={() => setApiError(null)}
closeApiError ==
    /\ FormShown /\ apiError # ""
    /\ apiError' = ""
    /\ event' = [type |-> "close", message |-> ""]
    /\ UNCHANGED <<env, form, editing, formData, errors, submitting, loadingData, request,
                   dbVars, errVars, valVars, seedVars, viewVars>>

\* The Cancel button: onCancel, every list view's handleFormCancel hides the form.
onCancel ==
    /\ FormShown /\ ~submitting
    /\ event' = [type |-> "onCancel", message |-> ""]
    /\ Unmounted
    /\ UNCHANGED <<env, dbVars, errVars, valVars, seedVars, viewVars>>

(***************************************************************************)
(* Section 7. The error path of one API call: the server's error response, *)
(* the interceptor's rejection, and the message the catch block of         *)
(* handleSubmit / confirmDelete shows.                                     *)
(***************************************************************************)
Operations == {"getAll", "create", "update", "delete"}

ErrorStatuses == {400, 409}

EnvelopeErrors ==
    {"Cannot delete customer with existing rides",
     "Missing required field: customer_name",
     "Rating must be between 1 and 5",
     "Email already exists",
     "ORA-02291: integrity constraint violated - parent key not found",
     "ORA-02292: integrity constraint violated - child record found",
     "ORA-00001: unique constraint violated",
     "FOREIGN KEY constraint failed: Driver",
     "Duplicate entry for email",
     ""}

\* What can end a request before its timer runs out.
Failures ==
    {ErrorResponse(s, m) : s \in ErrorStatuses, m \in EnvelopeErrors}
        \cup {NoResponse, ConnectionFailed, RequestAborted}

\* elapsed: milliseconds since the request left; requests: the HTTP requests
\* issued for the call.
NoCall == [op |-> "none", phase |-> "idle", failure |-> NoResponse,
           rejection |-> [message |-> "", status |-> 0], shown |-> "",
           elapsed |-> 0, requests |-> 0]

\* customerService.create / update / delete (and the other services): the request leaves.
Send(op) ==
    /\ call.phase \in {"idle", "shown"}
    /\ call' = [NoCall EXCEPT !.op = op, !.phase = "sent", !.requests = 1]
    /\ UNCHANGED <<dbVars, formVars, valVars, seedVars, viewVars>>

\* One more second passes without a response.
Wait ==
    /\ call.phase = "sent"
    /\ call.elapsed < timeout
    /\ call' = [call EXCEPT !.elapsed = @ + 1000]
    /\ UNCHANGED <<dbVars, formVars, valVars, seedVars, viewVars>>

Succeed ==
    /\ call.phase = "sent"
    /\ call.elapsed < timeout
    /\ call' = NoCall
    /\ UNCHANGED <<dbVars, formVars, valVars, seedVars, viewVars>>

\* An interceptor that looks for the text under data.message.
RejectNoText(failure) ==
    /\ call.phase = "sent"
    /\ call.elapsed < timeout
    /\ call' = [call EXCEPT !.phase = "rejected", !.failure = failure,
                            !.rejection = [Interceptor(failure) EXCEPT
                                               !.message = IF failure.kind = "response"
                                                           THEN GenericError ELSE @]]
    /\ UNCHANGED <<dbVars, formVars, valVars, seedVars, viewVars>>

\* The interceptor turns the failure into the rejection the caller awaits.
Reject(failure) ==
    /\ call.phase = "sent"
    /\ call.elapsed < timeout
    /\ call' = [call EXCEPT !.phase = "rejected", !.failure = failure,
                            !.rejection = Interceptor(failure)]
    /\ UNCHANGED <<dbVars, formVars, valVars, seedVars, viewVars>>

\* The timer of the request runs out: axios aborts the request and the
\* interceptor receives its timeout error.
TimeOut ==
    /\ call.phase = "sent"
    /\ call.elapsed >= timeout
    /\ call' = [call EXCEPT !.phase = "rejected", !.failure = TimedOut,
                            !.rejection = Interceptor(TimedOut)]
    /\ UNCHANGED <<dbVars, formVars, valVars, seedVars, viewVars>>

\* A catch block that sends the request again.
CatchAndRetry ==
    /\ call.phase = "rejected"
    /\ call' = [call EXCEPT !.phase = IF call.requests < 2 THEN "sent" ELSE "shown",
                            !.shown = getErrorMessage(call.rejection),
                            !.elapsed = 0,
                            !.requests = IF call.requests < 2 THEN @ + 1 ELSE @]
    /\ UNCHANGED <<dbVars, formVars, valVars, seedVars, viewVars>>

\* catch (err) { setApiError(getErrorMessage(err)) } / setError(getErrorMessage(err))
Catch ==
    /\ call.phase = "rejected"
    /\ call' = [call EXCEPT !.phase = "shown", !.shown = getErrorMessage(call.rejection)]
    /\ UNCHANGED <<dbVars, formVars, valVars, seedVars, viewVars>>

(***************************************************************************)
(* Section 8. utils/validation.js called on its own: one validation        *)
(* function applied to arguments of every kind.  The outcome of a call is  *)
(* the boolean it returns, as "true" or "false", or TypeError when it      *)
(* throws.                                                                 *)
(***************************************************************************)
TypeError == "TypeError"

Returned(b) == IF b THEN "true" ELSE "false"

\* email.trim(): a method of strings only, so the call throws on a number.
isValidEmailCall(email) ==
    IF Falsy(email) THEN Returned(FALSE)
    ELSE IF email.t # "string" THEN TypeError
    ELSE Returned(isValidEmail(email))

\* phone.replace(...): a method of strings only.
isValidPhoneNumberCall(phone) ==
    IF Falsy(phone) THEN Returned(FALSE)
    ELSE IF phone.t # "string" THEN TypeError
    ELSE Returned(isValidPhoneNumber(phone))

\* Texts a caller may pass: blank, words, whole numbers, fractions,
\* exponent notation, years, an email address, phone numbers, datetimes.
ValTexts ==
    {"", " ", "abc", "0", "1", "5", "6", " 3 ", "-1", "4.5", "5.0", "5e-1", "0.5e1",
     "1899", "1900", "2027", "2028", "2020.5", "2e3",
     "alice.johnson@email.com", "bob@email", "416-555-0101", "555-0101",
     "2024-01-01T08:00", "2024-01-01T08:01", "2024-03-10T02:30", "2024-03-10T03:15"}

\* Numbers a caller may pass, by their canonical text.
ValNumbers == {"0", "1", "5", "6", "4.5", "0.5", "1900", "2027", "2028", "2020.5",
               "12345", "NaN"}

ValInputs == {Str(s) : s \in ValTexts} \cup {Num(s) : s \in ValNumbers} \cup {Null, Undefined}

\* The second argument of isAfter.
DateArgs ==
    {Str(s) : s \in {"", "abc", "2024-01-01T08:00", "2024-01-01T08:01",
                     "2024-03-10T02:30", "2024-03-10T03:15", "2024-03-10T03:30"}}
        \cup {Null, Undefined}

\* minYear = 1900, maxYear = new Date().getFullYear() + 1, or given.
YearRanges(currentYear) == {<<1900, currentYear + 1>>, <<2000, 2020>>}

NoProbe == [fn |-> "none", a |-> Null, b |-> Null, minYear |-> 0, maxYear |-> 0,
            result |-> "none"]

Probe(fn, result) ==
    /\ probe' = [probe EXCEPT !.fn = fn, !.result = result, !.minYear = 0, !.maxYear = 0]
    /\ UNCHANGED <<dbVars, formVars, errVars, seedVars, viewVars>>

CallIsValidEmail == Probe("isValidEmail", isValidEmailCall(probe.a))

CallIsValidPhoneNumber == Probe("isValidPhoneNumber", isValidPhoneNumberCall(probe.a))

CallIsValidNumber == Probe("isValidNumber", Returned(isValidNumber(probe.a)))

CallIsValidPositiveNumber == Probe("isValidPositiveNumber", Returned(isValidPositiveNumber(probe.a)))

\* hasValidDecimals(value), maxDecimals = 2
CallHasValidDecimals == Probe("hasValidDecimals", Returned(hasValidDecimals(probe.a, 2)))

CallIsValidYear(minYear, maxYear) ==
    /\ probe' = [probe EXCEPT !.fn = "isValidYear", !.minYear = minYear, !.maxYear = maxYear,
                              !.result = Returned(isValidYear(probe.a, minYear, maxYear))]
    /\ UNCHANGED <<dbVars, formVars, errVars, seedVars, viewVars>>

CallIsValidRating == Probe("isValidRating", Returned(isValidRating(probe.a)))

CallIsRequired == Probe("isRequired", Returned(isRequired(probe.a)))

\* isAfter(startDatetime, endDatetime), each a string, null or undefined (a
\* number would be read by new Date as a count of milliseconds).
CallIsAfter ==
    /\ probe.a.t # "number"
    /\ Probe("isAfter", Returned(isAfter(env.tz, probe.a, probe.b)))

IdleVal == probe = NoProbe

(***************************************************************************)
(* Section 9. The seed fixture: init_db.sql run statement by statement in  *)
(* one database session, and the report queries run over what the session  *)
(* sees.  Amounts are in cents; an average is in hundredths.               *)
(***************************************************************************)
Tables == {"Customer", "Driver", "Vehicle", "Location", "Ride", "Payment", "Rating"}

\* The statements of init_db.sql, in order.
Script ==
    <<
      [op |-> "delete", table |-> "Rating", row |-> <<>>],
      [op |-> "delete", table |-> "Payment", row |-> <<>>],
      [op |-> "delete", table |-> "Ride", row |-> <<>>],
      [op |-> "delete", table |-> "Vehicle", row |-> <<>>],
      [op |-> "delete", table |-> "Location", row |-> <<>>],
      [op |-> "delete", table |-> "Driver", row |-> <<>>],
      [op |-> "delete", table |-> "Customer", row |-> <<>>],
      [op |-> "insert", table |-> "Customer", row |->
          [Customer_ID |-> 1, Customer_Name |-> "Alice Johnson", Phone_Number |-> "416-555-0101", Email |-> "alice.johnson@email.com"]],
      [op |-> "insert", table |-> "Customer", row |->
          [Customer_ID |-> 2, Customer_Name |-> "Bob Smith", Phone_Number |-> "416-555-0102", Email |-> "bob.smith@email.com"]],
      [op |-> "insert", table |-> "Customer", row |->
          [Customer_ID |-> 3, Customer_Name |-> "Carol Williams", Phone_Number |-> "647-555-0103", Email |-> "carol.w@email.com"]],
      [op |-> "insert", table |-> "Customer", row |->
          [Customer_ID |-> 4, Customer_Name |-> "David Brown", Phone_Number |-> "416-555-0104", Email |-> "david.brown@email.com"]],
      [op |-> "insert", table |-> "Customer", row |->
          [Customer_ID |-> 5, Customer_Name |-> "Emma Davis", Phone_Number |-> "647-555-0105", Email |-> "emma.davis@email.com"]],
      [op |-> "insert", table |-> "Driver", row |->
          [Driver_ID |-> 1, Driver_Name |-> "John Driver", Phone_Number |-> "416-555-0201", License_Number |-> "DL123456"]],
      [op |-> "insert", table |-> "Driver", row |->
          [Driver_ID |-> 2, Driver_Name |-> "Sarah Wheeler", Phone_Number |-> "647-555-0202", License_Number |-> "DL234567"]],
      [op |-> "insert", table |-> "Driver", row |->
          [Driver_ID |-> 3, Driver_Name |-> "Mike Roadster", Phone_Number |-> "416-555-0203", License_Number |-> "DL345678"]],
      [op |-> "insert", table |-> "Driver", row |->
          [Driver_ID |-> 4, Driver_Name |-> "Lisa Cruise", Phone_Number |-> "647-555-0204", License_Number |-> "DL456789"]],
      [op |-> "insert", table |-> "Driver", row |->
          [Driver_ID |-> 5, Driver_Name |-> "Tom Navigator", Phone_Number |-> "416-555-0205", License_Number |-> "DL567890"]],
      [op |-> "insert", table |-> "Vehicle", row |->
          [Vehicle_VIN |-> "1HGCM82633A123456", Model |-> "Honda Accord", Color |-> "Silver", Registration_Year |-> 2020, Driver_ID |-> 1]],
      [op |-> "insert", table |-> "Vehicle", row |->
          [Vehicle_VIN |-> "2T1BURHE0FC123457", Model |-> "Toyota Corolla", Color |-> "Blue", Registration_Year |-> 2019, Driver_ID |-> 2]],
      [op |-> "insert", table |-> "Vehicle", row |->
          [Vehicle_VIN |-> "3VW2B7AJ8DM123458", Model |-> "Volkswagen Jetta", Color |-> "Black", Registration_Year |-> 2021, Driver_ID |-> 3]],
      [op |-> "insert", table |-> "Vehicle", row |->
          [Vehicle_VIN |-> "5FNRL6H78GB123459", Model |-> "Honda Odyssey", Color |-> "White", Registration_Year |-> 2018, Driver_ID |-> 4]],
      [op |-> "insert", table |-> "Vehicle", row |->
          [Vehicle_VIN |-> "1G1ZD5ST8LF123460", Model |-> "Chevrolet Malibu", Color |-> "Red", Registration_Year |-> 2022, Driver_ID |-> 5]],
      [op |-> "insert", table |-> "Location", row |->
          [Location_ID |-> 1, Address |-> "123 King St W", City |-> "Toronto", Postal_Code |-> "M5H 1A1"]],
      [op |-> "insert", table |-> "Location", row |->
          [Location_ID |-> 2, Address |-> "456 Queen St E", City |-> "Toronto", Postal_Code |-> "M5A 1T1"]],
      [op |-> "insert", table |-> "Location", row |->
          [Location_ID |-> 3, Address |-> "789 Yonge St", City |-> "Toronto", Postal_Code |-> "M4Y 2B2"]],
      [op |-> "insert", table |-> "Location", row |->
          [Location_ID |-> 4, Address |-> "321 Bay St", City |-> "Toronto", Postal_Code |-> "M5H 2Y4"]],
      [op |-> "insert", table |-> "Location", row |->
          [Location_ID |-> 5, Address |-> "654 Bloor St W", City |-> "Toronto", Postal_Code |-> "M6G 1K4"]],
      [op |-> "insert", table |-> "Location", row |->
          [Location_ID |-> 6, Address |-> "987 Dundas St W", City |-> "Toronto", Postal_Code |-> "M6J 1W3"]],
      [op |-> "insert", table |-> "Location", row |->
          [Location_ID |-> 7, Address |-> "147 College St", City |-> "Toronto", Postal_Code |-> "M5T 1P7"]],
      [op |-> "insert", table |-> "Location", row |->
          [Location_ID |-> 8, Address |-> "258 Spadina Ave", City |-> "Toronto", Postal_Code |-> "M5T 2C2"]],
      [op |-> "insert", table |-> "Location", row |->
          [Location_ID |-> 9, Address |-> "369 Front St E", City |-> "Toronto", Postal_Code |-> "M5A 1G1"]],
      [op |-> "insert", table |-> "Location", row |->
          [Location_ID |-> 10, Address |-> "741 Harbourfront", City |-> "Toronto", Postal_Code |-> "M5J 2R8"]],
      [op |-> "insert", table |-> "Ride", row |->
          [Ride_ID |-> 1, Customer_ID |-> 1, Driver_ID |-> 1, Vehicle_VIN |-> "1HGCM82633A123456", Pickup_Location |-> 1, Dropoff_Location |-> 3, Start_Time |-> "2024-01-15 08:00:00", Arrival_Time |-> "2024-01-15 08:20:00"]],
      [op |-> "insert", table |-> "Ride", row |->
          [Ride_ID |-> 2, Customer_ID |-> 1, Driver_ID |-> 2, Vehicle_VIN |-> "2T1BURHE0FC123457", Pickup_Location |-> 3, Dropoff_Location |-> 5, Start_Time |-> "2024-01-17 09:00:00", Arrival_Time |-> "2024-01-17 09:25:00"]],
      [op |-> "insert", table |-> "Ride", row |->
          [Ride_ID |-> 3, Customer_ID |-> 1, Driver_ID |-> 3, Vehicle_VIN |-> "3VW2B7AJ8DM123458", Pickup_Location |-> 5, Dropoff_Location |-> 7, Start_Time |-> "2024-01-20 14:00:00", Arrival_Time |-> "2024-01-20 14:30:00"]],
      [op |-> "insert", table |-> "Ride", row |->
          [Ride_ID |-> 4, Customer_ID |-> 2, Driver_ID |-> 4, Vehicle_VIN |-> "5FNRL6H78GB123459", Pickup_Location |-> 2, Dropoff_Location |-> 4, Start_Time |-> "2024-01-16 10:00:00", Arrival_Time |-> "2024-01-16 10:15:00"]],
      [op |-> "insert", table |-> "Ride", row |->
          [Ride_ID |-> 5, Customer_ID |-> 2, Driver_ID |-> 5, Vehicle_VIN |-> "1G1ZD5ST8LF123460", Pickup_Location |-> 4, Dropoff_Location |-> 6, Start_Time |-> "2024-01-19 16:00:00", Arrival_Time |-> "2024-01-19 16:35:00"]],
      [op |-> "insert", table |-> "Ride", row |->
          [Ride_ID |-> 6, Customer_ID |-> 3, Driver_ID |-> 1, Vehicle_VIN |-> "1HGCM82633A123456", Pickup_Location |-> 6, Dropoff_Location |-> 8, Start_Time |-> "2024-01-16 10:00:00", Arrival_Time |-> "2024-01-16 10:18:00"]],
      [op |-> "insert", table |-> "Ride", row |->
          [Ride_ID |-> 7, Customer_ID |-> 3, Driver_ID |-> 2, Vehicle_VIN |-> "2T1BURHE0FC123457", Pickup_Location |-> 8, Dropoff_Location |-> 10, Start_Time |-> "2024-01-18 11:00:00", Arrival_Time |-> "2024-01-18 11:22:00"]],
      [op |-> "insert", table |-> "Ride", row |->
          [Ride_ID |-> 8, Customer_ID |-> 3, Driver_ID |-> 3, Vehicle_VIN |-> "3VW2B7AJ8DM123458", Pickup_Location |-> 10, Dropoff_Location |-> 1, Start_Time |-> "2024-01-21 15:00:00", Arrival_Time |-> "2024-01-21 15:28:00"]],
      [op |-> "insert", table |-> "Ride", row |->
          [Ride_ID |-> 9, Customer_ID |-> 3, Driver_ID |-> 4, Vehicle_VIN |-> "5FNRL6H78GB123459", Pickup_Location |-> 1, Dropoff_Location |-> 9, Start_Time |-> "2024-01-23 13:00:00", Arrival_Time |-> "2024-01-23 13:40:00"]],
      [op |-> "insert", table |-> "Ride", row |->
          [Ride_ID |-> 10, Customer_ID |-> 4, Driver_ID |-> 5, Vehicle_VIN |-> "1G1ZD5ST8LF123460", Pickup_Location |-> 2, Dropoff_Location |-> 7, Start_Time |-> "2024-01-17 11:00:00", Arrival_Time |-> "2024-01-17 11:25:00"]],
      [op |-> "insert", table |-> "Ride", row |->
          [Ride_ID |-> 11, Customer_ID |-> 4, Driver_ID |-> 1, Vehicle_VIN |-> "1HGCM82633A123456", Pickup_Location |-> 7, Dropoff_Location |-> 3, Start_Time |-> "2024-01-20 09:00:00", Arrival_Time |-> "2024-01-20 09:20:00"]],
      [op |-> "insert", table |-> "Ride", row |->
          [Ride_ID |-> 12, Customer_ID |-> 4, Driver_ID |-> 2, Vehicle_VIN |-> "2T1BURHE0FC123457", Pickup_Location |-> 3, Dropoff_Location |-> 9, Start_Time |-> "2024-01-22 17:00:00", Arrival_Time |-> "2024-01-22 17:32:00"]],
      [op |-> "insert", table |-> "Ride", row |->
          [Ride_ID |-> 13, Customer_ID |-> 5, Driver_ID |-> 3, Vehicle_VIN |-> "3VW2B7AJ8DM123458", Pickup_Location |-> 4, Dropoff_Location |-> 2, Start_Time |-> "2024-01-18 12:00:00", Arrival_Time |-> "2024-01-18 12:15:00"]],
      [op |-> "insert", table |-> "Ride", row |->
          [Ride_ID |-> 14, Customer_ID |-> 5, Driver_ID |-> 4, Vehicle_VIN |-> "5FNRL6H78GB123459", Pickup_Location |-> 9, Dropoff_Location |-> 5, Start_Time |-> "2024-01-21 14:00:00", Arrival_Time |-> "2024-01-21 14:38:00"]],
      [op |-> "insert", table |-> "Ride", row |->
          [Ride_ID |-> 15, Customer_ID |-> 5, Driver_ID |-> 5, Vehicle_VIN |-> "1G1ZD5ST8LF123460", Pickup_Location |-> 5, Dropoff_Location |-> 10, Start_Time |-> "2024-01-24 10:00:00", Arrival_Time |-> "2024-01-24 10:45:00"]],
      [op |-> "insert", table |-> "Payment", row |->
          [Transaction_ID |-> 1, Ride_ID |-> 1, Amount |-> 1550, Payment_Method |-> "Credit Card", Payment_Status |-> "Completed", Payment_Date |-> "2024-01-15 08:30:00"]],
      [op |-> "insert", table |-> "Payment", row |->
          [Transaction_ID |-> 2, Ride_ID |-> 2, Amount |-> 2275, Payment_Method |-> "Debit", Payment_Status |-> "Completed", Payment_Date |-> "2024-01-17 09:30:00"]],
      [op |-> "insert", table |-> "Payment", row |->
          [Transaction_ID |-> 3, Ride_ID |-> 3, Amount |-> 2800, Payment_Method |-> "Mobile Pay", Payment_Status |-> "Completed", Payment_Date |-> "2024-01-20 14:35:00"]],
      [op |-> "insert", table |-> "Payment", row |->
          [Transaction_ID |-> 4, Ride_ID |-> 4, Amount |-> 1225, Payment_Method |-> "Cash", Payment_Status |-> "Completed", Payment_Date |-> "2024-01-16 10:20:00"]],
      [op |-> "insert", table |-> "Payment", row |->
          [Transaction_ID |-> 5, Ride_ID |-> 5, Amount |-> 3550, Payment_Method |-> "Credit Card", Payment_Status |-> "Completed", Payment_Date |-> "2024-01-19 16:40:00"]],
      [op |-> "insert", table |-> "Payment", row |->
          [Transaction_ID |-> 6, Ride_ID |-> 6, Amount |-> 1800, Payment_Method |-> "Debit", Payment_Status |-> "Completed", Payment_Date |-> "2024-01-16 10:25:00"]],
      [op |-> "insert", table |-> "Payment", row |->
          [Transaction_ID |-> 7, Ride_ID |-> 7, Amount |-> 2050, Payment_Method |-> "Mobile Pay", Payment_Status |-> "Completed", Payment_Date |-> "2024-01-18 11:30:00"]],
      [op |-> "insert", table |-> "Payment", row |->
          [Transaction_ID |-> 8, Ride_ID |-> 8, Amount |-> 2675, Payment_Method |-> "Credit Card", Payment_Status |-> "Completed", Payment_Date |-> "2024-01-21 15:35:00"]],
      [op |-> "insert", table |-> "Payment", row |->
          [Transaction_ID |-> 9, Ride_ID |-> 9, Amount |-> 3800, Payment_Method |-> "Cash", Payment_Status |-> "Pending", Payment_Date |-> "2024-01-23 13:45:00"]],
      [op |-> "insert", table |-> "Payment", row |->
          [Transaction_ID |-> 10, Ride_ID |-> 10, Amount |-> 2425, Payment_Method |-> "Debit", Payment_Status |-> "Completed", Payment_Date |-> "2024-01-17 11:30:00"]],
      [op |-> "insert", table |-> "Rating", row |->
          [Rating_ID |-> 1, Ride_ID |-> 1, Customer_Rating |-> 5, Driver_Rating |-> 5, Comments |-> "Great ride! Very professional driver."]],
      [op |-> "insert", table |-> "Rating", row |->
          [Rating_ID |-> 2, Ride_ID |-> 2, Customer_Rating |-> 4, Driver_Rating |-> 5, Comments |-> "Good service, arrived on time."]],
      [op |-> "insert", table |-> "Rating", row |->
          [Rating_ID |-> 3, Ride_ID |-> 3, Customer_Rating |-> 5, Driver_Rating |-> 4, Comments |-> "Excellent driver, smooth ride."]],
      [op |-> "insert", table |-> "Rating", row |->
          [Rating_ID |-> 4, Ride_ID |-> 4, Customer_Rating |-> 3, Driver_Rating |-> 4, Comments |-> "Decent ride, but car could be cleaner."]],
      [op |-> "insert", table |-> "Rating", row |->
          [Rating_ID |-> 5, Ride_ID |-> 6, Customer_Rating |-> 5, Driver_Rating |-> 5, Comments |-> "Perfect experience!"]],
      [op |-> "insert", table |-> "Rating", row |->
          [Rating_ID |-> 6, Ride_ID |-> 7, Customer_Rating |-> 4, Driver_Rating |-> 4, Comments |-> "Good overall, friendly driver."]],
      [op |-> "insert", table |-> "Rating", row |->
          [Rating_ID |-> 7, Ride_ID |-> 8, Customer_Rating |-> 5, Driver_Rating |-> 5, Comments |-> "Amazing service, highly recommend."]],
      [op |-> "insert", table |-> "Rating", row |->
          [Rating_ID |-> 8, Ride_ID |-> 10, Customer_Rating |-> 4, Driver_Rating |-> 5, Comments |-> "Very satisfied with the ride."]],
      [op |-> "commit", table |-> "", row |-> <<>>]
    >>

\* The primary key column of each table.
PrimaryKey(table) ==
    CASE table = "Customer" -> "Customer_ID"
      [] table = "Driver" -> "Driver_ID"
      [] table = "Vehicle" -> "Vehicle_VIN"
      [] table = "Location" -> "Location_ID"
      [] table = "Ride" -> "Ride_ID"
      [] table = "Payment" -> "Transaction_ID"
      [] table = "Rating" -> "Rating_ID"

\* The references of each table: <<column, parent table>>.
References(table) ==
    CASE table = "Vehicle" -> {<<"Driver_ID", "Driver">>}
      [] table = "Ride" -> {<<"Customer_ID", "Customer">>, <<"Driver_ID", "Driver">>,
                            <<"Vehicle_VIN", "Vehicle">>, <<"Pickup_Location", "Location">>,
                            <<"Dropoff_Location", "Location">>}
      [] table = "Payment" -> {<<"Ride_ID", "Ride">>}
      [] table = "Rating" -> {<<"Ride_ID", "Ride">>}
      [] OTHER -> {}

EmptyTables == [t \in Tables |-> {}]

\* Tables left by other work: rows under keys the script uses, with other
\* contents, and rows under keys it does not use.
StaleTables ==
    [t \in Tables |->
        CASE t = "Customer" ->
                 {[Customer_ID |-> 1, Customer_Name |-> "Zed Old", Phone_Number |-> "416-555-0999", Email |-> "zed@email.com"],
                  [Customer_ID |-> 6, Customer_Name |-> "Finn Extra", Phone_Number |-> "416-555-0106", Email |-> "finn@email.com"]}
          [] t = "Driver" ->
                 {[Driver_ID |-> 6, Driver_Name |-> "Gus Extra", Phone_Number |-> "416-555-0206", License_Number |-> "DL678901"]}
          [] t = "Vehicle" ->
                 {[Vehicle_VIN |-> "1HGCM82633A123456", Model |-> "Honda Civic", Color |-> "Green", Registration_Year |-> 2015, Driver_ID |-> 6]}
          [] t = "Location" ->
                 {[Location_ID |-> 1, Address |-> "1 Old Rd", City |-> "Toronto", Postal_Code |-> "M1M 1M1"],
                  [Location_ID |-> 11, Address |-> "11 Extra Rd", City |-> "Toronto", Postal_Code |-> "M2M 2M2"]}
          [] t = "Ride" ->
                 {[Ride_ID |-> 16, Customer_ID |-> 6, Driver_ID |-> 6, Vehicle_VIN |-> "1HGCM82633A123456", Pickup_Location |-> 1, Dropoff_Location |-> 11, Start_Time |-> "2023-12-01 08:00:00", Arrival_Time |-> "2023-12-01 08:30:00"]}
          [] t = "Payment" ->
                 {[Transaction_ID |-> 1, Ride_ID |-> 16, Amount |-> 2775, Payment_Method |-> "Credit Card", Payment_Status |-> "Completed", Payment_Date |-> "2023-12-01 08:35:00"]}
          [] t = "Rating" ->
                 {[Rating_ID |-> 1, Ride_ID |-> 16, Customer_Rating |-> 4, Driver_Rating |-> 4, Comments |-> "Old rating."]}]

\* The tables after an earlier run of the script.
SeededTables ==
    [t \in Tables |-> {Script[i].row : i \in {j \in 1..Len(Script) :
                                                 Script[j].op = "insert" /\ Script[j].table = t}}]

\* Some row of a child table references a row of the table.
HasChildRows(db, table) ==
    \E child \in Tables : \E ref \in References(child) :
        /\ ref[2] = table
        /\ \E c \in db[child] : \E p \in db[table] : c[ref[1]] = p[PrimaryKey(table)]

\* The Oracle error of a statement on db, "" when it succeeds.
StatementError(db, st) ==
    IF st.op = "delete"
    THEN IF HasChildRows(db, st.table) THEN "ORA-02292" ELSE ""
    ELSE IF st.op = "insert"
    THEN IF \E r \in db[st.table] : r[PrimaryKey(st.table)] = st.row[PrimaryKey(st.table)]
         THEN "ORA-00001"
         ELSE IF \E ref \in References(st.table) :
                    \A p \in db[ref[2]] : p[PrimaryKey(ref[2])] # st.row[ref[1]]
         THEN "ORA-02291"
         ELSE ""
    ELSE ""

\* An execution in which DELETE FROM removes nothing.
ApplyNoDelete(db, st) ==
    IF st.op = "insert" THEN [db EXCEPT ![st.table] = @ \cup {st.row}] ELSE db

\* The tables after a statement that succeeds.
Apply(db, st) ==
    IF st.op = "delete" THEN [db EXCEPT ![st.table] = {}]
    ELSE IF st.op = "insert" THEN [db EXCEPT ![st.table] = @ \cup {st.row}]
    ELSE db

\* The sum of f over the rows of a set.
RECURSIVE SumOf(_, _)
SumOf(rows, column) ==
    IF rows = {} THEN 0
    ELSE LET r == CHOOSE x \in rows : TRUE IN r[column] + SumOf(rows \ {r}, column)

\* ROUND(AVG(column), 2) over a non-empty set of rows, in hundredths.
RoundedAverage(total, count) == (200 * total + count) \div (2 * count)

\* A top-drivers report that groups the rides by customer.
TopDriversByCustomer(db) ==
    {[DRIVER_ID |-> d.Driver_ID, DRIVER_NAME |-> d.Driver_Name,
      RIDE_COUNT |-> Cardinality({r \in db["Ride"] : r.Customer_ID = d.Driver_ID})] :
        d \in {x \in db["Driver"] : \E r \in db["Ride"] : r.Customer_ID = x.Driver_ID}}

\* Top drivers by ride count: rides grouped by driver, counted.
TopDrivers(db) ==
    {[DRIVER_ID |-> d.Driver_ID, DRIVER_NAME |-> d.Driver_Name,
      RIDE_COUNT |-> Cardinality({r \in db["Ride"] : r.Driver_ID = d.Driver_ID})] :
        d \in {x \in db["Driver"] : \E r \in db["Ride"] : r.Driver_ID = x.Driver_ID}}

PaymentsBy(db, method) == {p \in db["Payment"] : p.Payment_Method = method}

\* Revenue by payment method: payments grouped by method, sum(amount), count(*).
RevenueByMethod(db) ==
    {[PAYMENT_METHOD |-> m, TOTAL_REVENUE |-> SumOf(PaymentsBy(db, m), "Amount"),
      TRANSACTION_COUNT |-> Cardinality(PaymentsBy(db, m))] :
        m \in {p.Payment_Method : p \in db["Payment"]}}

\* The ratings on the rides a driver drove.
RatingsOf(db, driver) ==
    {g \in db["Rating"] : \E r \in db["Ride"] : r.Ride_ID = g.Ride_ID /\ r.Driver_ID = driver}

AverageRow(d, ratings, column) ==
    [DRIVER_ID |-> d.Driver_ID, DRIVER_NAME |-> d.Driver_Name,
     AVG_RATING |-> RoundedAverage(SumOf(ratings, column), Cardinality(ratings)),
     RATING_COUNT |-> Cardinality(ratings)]

\* An average-ratings report that averages the customer's rating.
AverageRatingsOfCustomer(db) ==
    {AverageRow(d, RatingsOf(db, d.Driver_ID), "Customer_Rating") :
        d \in {x \in db["Driver"] : RatingsOf(db, x.Driver_ID) # {}}}

\* Average rating by driver: the average of driver_rating over the ratings
\* on the rides the driver drove, with their count; drivers without a
\* rating are left out.
AverageRatings(db) ==
    {AverageRow(d, RatingsOf(db, d.Driver_ID), "Driver_Rating") :
        d \in {x \in db["Driver"] : RatingsOf(db, x.Driver_ID) # {}}}

Reports == {"top-drivers", "revenue-by-method", "average-ratings"}

ReportRows(name, db) ==
    CASE name = "top-drivers" -> TopDrivers(db)
      [] name = "revenue-by-method" -> RevenueByMethod(db)
      [] name = "average-ratings" -> AverageRatings(db)

NoReport == [name |-> "none", at |-> 0, removed |-> 0, rows |-> {}]

\* The script has run to its end.
Seeded == script.pc = Len(Script) + 1

\* SQL*Plus executes the next statement of the script; a statement that
\* fails changes nothing and the script goes on.
RunStatement ==
    LET st == Script[script.pc]
        err == StatementError(seeded, st)
    IN /\ script.pc <= Len(Script)
       /\ seeded' = IF err = "" THEN Apply(seeded, st) ELSE seeded
       /\ script' = [script EXCEPT !.pc = @ + 1,
                                   !.failed = @ + (IF err = "" THEN 0 ELSE 1)]
       /\ UNCHANGED <<report, removal, dbVars, formVars, errVars, valVars, viewVars>>

\* GET /api/reports/<name>
RunReport(name) ==
    /\ report' = [name |-> name, at |-> script.pc, removed |-> script.removed,
                  rows |-> ReportRows(name, seeded)]
    /\ UNCHANGED <<script, seeded, removal, dbVars, formVars, errVars, valVars, viewVars>>

\* The rows the API is asked to delete once the script has run.
DeleteTargets ==
    {<<"Location", 1>>, <<"Location", 11>>, <<"Customer", 1>>, <<"Ride", 1>>,
     <<"Ride", 15>>, <<"Payment", 10>>, <<"Rating", 8>>}

\* Some row of a child table references the row of the table under the key.
HasDependents(db, table, key) ==
    \E child \in Tables : \E ref \in References(child) :
        ref[2] = table /\ \E c \in db[child] : c[ref[1]] = key

\* The outcome of delete(key) on a table: NotFound, ConstraintViolation when
\* dependents exist, ok otherwise.
DeleteResult(db, table, key) ==
    IF \A r \in db[table] : r[PrimaryKey(table)] # key THEN "NotFound"
    ELSE IF HasDependents(db, table, key) THEN "ConstraintViolation"
    ELSE "ok"

NoRemoval == [table |-> "", key |-> 0, result |-> "none"]

\* A delete that does not look for dependents.
DeleteRowUnchecked(table, key) ==
    /\ Seeded
    /\ removal' = [table |-> table, key |-> key,
                   result |-> IF DeleteResult(seeded, table, key) = "NotFound"
                              THEN "NotFound" ELSE "ok"]
    /\ seeded' = [seeded EXCEPT ![table] = {r \in @ : r[PrimaryKey(table)] # key}]
    /\ script' = [script EXCEPT !.removed = @ + (IF removal'.result = "ok" THEN 1 ELSE 0)]
    /\ UNCHANGED <<report, dbVars, formVars, errVars, valVars, viewVars>>

\* DELETE /api/<entity>/<key>
DeleteRow(table, key) ==
    /\ Seeded
    /\ removal' = [table |-> table, key |-> key, result |-> DeleteResult(seeded, table, key)]
    /\ seeded' = IF removal'.result = "ok"
                 THEN [seeded EXCEPT ![table] = {r \in @ : r[PrimaryKey(table)] # key}]
                 ELSE seeded
    /\ script' = [script EXCEPT !.removed = @ + (IF removal'.result = "ok" THEN 1 ELSE 0)]
    /\ UNCHANGED <<report, dbVars, formVars, errVars, valVars, viewVars>>

IdleSeed ==
    /\ script = [pc |-> 1, failed |-> 0, removed |-> 0]
    /\ seeded = EmptyTables
    /\ report = NoReport
    /\ removal = NoRemoval

(***************************************************************************)
(* Section 10. A list view (CustomerList): its useState values, the        *)
(* confirmation dialog and the requests of the view that are in flight.    *)
(* The API behind the view answers each request with a success or with one *)
(* of the failures below.                                                  *)
(***************************************************************************)
MaxPending == 2

CustomerIds == {1, 2}

\* customer_name of the first customers init_db.sql inserts
CustomerName(k) == Script[7 + k].row.Customer_Name

\* `Customer "${deleteConfirm.customer_name}" deleted successfully`
DeletedText(k) == "Customer \"" \o CustomerName(k) \o "\" deleted successfully"

FormMessages == {"Customer created successfully", "Customer updated successfully"}

DeleteFailures == {ErrorResponse(400, "Cannot delete customer with existing rides"), NoResponse}
LoadFailures == {ErrorResponse(500, "Database connection failed"), NoResponse}

\* useState: customers [], loading true, error null, success null, showForm
\* false, editingCustomer null, deleteConfirm null (0 stands for null, ""
\* for a null message).
InitialList ==
    [customers |-> {}, loading |-> TRUE, error |-> "", success |-> "", showForm |-> FALSE,
     editingCustomer |-> 0, deleteConfirm |-> 0]

GetAllRequest == [op |-> "getAll", key |-> 0]
DeleteRequest(k) == [op |-> "delete", key |-> k]

NoEvent == [type |-> "mount", target |-> "none", handlers |-> <<>>, key |-> 0]

\* rows: the customers behind the API; pending: the requests in flight;
\* deletes: the DELETE requests sent since the dialog was last opened;
\* event: what happened last.
InitialNet ==
    [rows |-> {1, 2}, pending |-> <<GetAllRequest>>, deletes |-> 0, event |-> NoEvent]

Without(seq, i) == SubSeq(seq, 1, i - 1) \o SubSeq(seq, i + 1, Len(seq))

\* loadCustomers up to its await: setLoading(true); setError(null); getAll()
loadCustomers(s) ==
    [list |-> [s.list EXCEPT !.loading = TRUE, !.error = ""],
     net  |-> [s.net EXCEPT !.pending = Append(@, GetAllRequest)]]

\* confirmDelete up to its await: if (!deleteConfirm) return; setError(null);
\* customerService.delete(deleteConfirm.customer_id)
confirmDelete(s) ==
    IF s.list.deleteConfirm = 0 THEN s
    ELSE [list |-> [s.list EXCEPT !.error = ""],
          net  |-> [s.net EXCEPT !.pending = Append(@, DeleteRequest(s.list.deleteConfirm)),
                                 !.deletes = @ + 1]]

\* cancelDelete: setDeleteConfirm(null)
cancelDelete(s) == [s EXCEPT !.list.deleteConfirm = 0]

\* ConfirmDialog: the elements a click can land on, each with its parent
\* and its onClick.
DialogElements == {"overlay", "dialog", "cancelButton", "confirmButton"}

ParentElement(el) ==
    CASE el = "confirmButton" -> "dialog"
      [] el = "cancelButton" -> "dialog"
      [] el = "dialog" -> "overlay"
      [] OTHER -> "none"

\* A dialog whose inner div has no onClick.
OnClickThrough(el) ==
    CASE el = "overlay" -> "onCancel"
      [] el = "cancelButton" -> "onCancel"
      [] el = "confirmButton" -> "onConfirm"
      [] OTHER -> "none"

OnClick(el) ==
    CASE el = "overlay" -> "onCancel"
      [] el = "dialog" -> "stopPropagation"
      [] el = "cancelButton" -> "onCancel"
      [] el = "confirmButton" -> "onConfirm"
      [] OTHER -> "none"

\* The onClick handlers a click runs: the target's, then its ancestors', up
\* to the element whose handler calls e.stopPropagation().
RECURSIVE Dispatch(_)
Dispatch(el) ==
    IF el = "none" THEN <<>>
    ELSE IF OnClick(el) = "stopPropagation" THEN <<"stopPropagation">>
    ELSE <<OnClick(el)>> \o Dispatch(ParentElement(el))

RunHandler(handler, s) ==
    CASE handler = "onConfirm" -> confirmDelete(s)
      [] handler = "onCancel" -> cancelDelete(s)
      [] OTHER -> s

RECURSIVE RunHandlers(_, _)
RunHandlers(handlers, s) ==
    IF handlers = <<>> THEN s
    ELSE RunHandlers(Tail(handlers), RunHandler(Head(handlers), s))

Ran(handler, ev) == \E i \in DOMAIN ev.handlers : ev.handlers[i] = handler

\* if (loading) return <LoadingSpinner />; the dialog's overlay covers the
\* page while it is open.
ListShown == ~list.loading
PageShown == ListShown /\ list.deleteConfirm = 0
TableShown == PageShown /\ ~list.showForm

ListStep(s, type, target, handlers, key) ==
    /\ list' = s.list
    /\ net' = [s.net EXCEPT !.event = [type |-> type, target |-> target,
                                       handlers |-> handlers, key |-> key]]
    /\ UNCHANGED <<reports, dbVars, formVars, errVars, valVars, seedVars>>

Here == [list |-> list, net |-> net]

\* getAll resolved: setCustomers(response.data || []); finally setLoading(false)
GetAllFulfilled(i) ==
    /\ i \in DOMAIN net.pending /\ net.pending[i].op = "getAll"
    /\ ListStep([list |-> [list EXCEPT !.customers = net.rows, !.loading = FALSE],
                 net  |-> [net EXCEPT !.pending = Without(@, i)]],
                "getAllFulfilled", "none", <<>>, 0)

\* getAll rejected: setError(getErrorMessage(err)); finally setLoading(false)
GetAllRejected(i, failure) ==
    /\ i \in DOMAIN net.pending /\ net.pending[i].op = "getAll"
    /\ ListStep([list |-> [list EXCEPT !.error = getErrorMessage(Interceptor(failure)),
                                       !.loading = FALSE],
                 net  |-> [net EXCEPT !.pending = Without(@, i)]],
                "getAllRejected", "none", <<>>, 0)

handleAdd ==
    /\ TableShown
    /\ ListStep([Here EXCEPT !.list.editingCustomer = 0, !.list.showForm = TRUE,
                             !.list.error = "", !.list.success = ""],
                "handleAdd", "none", <<>>, 0)

handleEdit(k) ==
    /\ TableShown /\ k \in list.customers
    /\ ListStep([Here EXCEPT !.list.editingCustomer = k, !.list.showForm = TRUE,
                             !.list.error = "", !.list.success = ""],
                "handleEdit", "none", <<>>, k)

\* handleDelete: setDeleteConfirm(customer), which opens the dialog
handleDelete(k) ==
    /\ TableShown /\ k \in list.customers
    /\ ListStep([Here EXCEPT !.list.deleteConfirm = k, !.net.deletes = 0],
                "handleDelete", "none", <<>>, k)

\* A click inside the open dialog or on its overlay.
ClickDialog(target) ==
    /\ ListShown /\ list.deleteConfirm # 0
    /\ target = "confirmButton" => Len(net.pending) < MaxPending
    /\ ListStep(RunHandlers(Dispatch(target), Here), "click", target, Dispatch(target),
                list.deleteConfirm)

\* confirmDelete after its await resolved: setSuccess; setDeleteConfirm(null);
\* loadCustomers()
DeleteFulfilled(i) ==
    /\ i \in DOMAIN net.pending /\ net.pending[i].op = "delete"
    /\ ListStep(loadCustomers(
                    [list |-> [list EXCEPT !.success = DeletedText(net.pending[i].key),
                                           !.deleteConfirm = 0],
                     net  |-> [net EXCEPT !.pending = Without(@, i),
                                          !.rows = @ \ {net.pending[i].key}]]),
                "deleteFulfilled", "none", <<>>, net.pending[i].key)

\* confirmDelete's catch: setError(getErrorMessage(err)); setDeleteConfirm(null)
DeleteRejected(i, failure) ==
    /\ i \in DOMAIN net.pending /\ net.pending[i].op = "delete"
    /\ ListStep([list |-> [list EXCEPT !.error = getErrorMessage(Interceptor(failure)),
                                       !.deleteConfirm = 0],
                 net  |-> [net EXCEPT !.pending = Without(@, i)]],
                "deleteRejected", "none", <<>>, net.pending[i].key)

\* The form's onSuccess: setSuccess(message); setShowForm(false);
\* setEditingCustomer(null); loadCustomers().  A create has added a row.
handleFormSuccess(message) ==
    LET free == CustomerIds \ net.rows
        added == IF list.editingCustomer = 0 /\ free # {}
                 THEN {CHOOSE k \in free : \A j \in free : k <= j} ELSE {}
    IN /\ ListShown /\ list.showForm
       /\ (list.editingCustomer = 0) = (message = "Customer created successfully")
       /\ Len(net.pending) < MaxPending
       /\ ListStep(loadCustomers(
                       [list |-> [list EXCEPT !.success = message, !.showForm = FALSE,
                                              !.editingCustomer = 0],
                        net  |-> [net EXCEPT !.rows = @ \cup added]]),
                   "handleFormSuccess", "none", <<>>, 0)

handleFormCancel ==
    /\ ListShown /\ list.showForm
    /\ ListStep([Here EXCEPT !.list.showForm = FALSE, !.list.editingCustomer = 0],
                "handleFormCancel", "none", <<>>, 0)

\* ErrorMessage onClose={() => setError(null)}
closeError ==
    /\ PageShown /\ list.error # ""
    /\ ListStep([Here EXCEPT !.list.error = ""], "closeError", "none", <<>>, 0)

\* SuccessMessage onClose={() => setSuccess(null)}
closeSuccess ==
    /\ PageShown /\ list.success # ""
    /\ ListStep([Here EXCEPT !.list.success = ""], "closeSuccess", "none", <<>>, 0)

IdleList == list = InitialList /\ net = InitialNet

(***************************************************************************)
(* Section 11. The Reports view: the selected report, the rows it shows    *)
(* and its requests in flight.  reportData is kept as the request whose    *)
(* response it holds.                                                      *)
(***************************************************************************)
ReportTypes ==
    {"top-drivers", "revenue-by-method", "average-ratings", "rides-by-location",
     "customer-history"}

NoData == [type |-> "none", customer |-> 0]

ReportRequest(type, customer) == [type |-> type, customer |-> customer]
CustomersRequest == [type |-> "customers", customer |-> 0]

\* A response that arrived: its envelope's success flag.
Envelopes == {TRUE, FALSE}

\* useState values, and the two effects of the first render: loadCustomers
\* and loadReportData for 'top-drivers'.
InitialReports ==
    [selectedReport |-> "top-drivers", reportData |-> NoData, loading |-> TRUE, error |-> "",
     customers |-> {}, selectedCustomerId |-> 0,
     pending |-> <<CustomersRequest, ReportRequest("top-drivers", 0)>>,
     event |-> "mount"]

ReportsStep(next, what) ==
    /\ reports' = [next EXCEPT !.event = what]
    /\ UNCHANGED <<list, net, dbVars, formVars, errVars, valVars, seedVars>>

\* loadReportData up to its await: setLoading(true); setError('');
\* setReportData(null); the request for the selected report
loadReportData(r) ==
    [r EXCEPT !.loading = TRUE, !.error = "", !.reportData = NoData,
              !.pending = Append(@, ReportRequest(r.selectedReport, 0))]

\* handleReportChange, and the effect on [selectedReport] that follows it
handleReportChange(value) ==
    LET changed == [reports EXCEPT !.selectedReport = value, !.reportData = NoData,
                                   !.error = ""]
    IN /\ value # reports.selectedReport
       /\ value # "customer-history" => Len(reports.pending) < MaxPending
       /\ ReportsStep(IF value # "customer-history" THEN loadReportData(changed)
                      ELSE changed,
                      "handleReportChange")

\* onChange of the customer dropdown: "" or one of the customers loaded
setSelectedCustomerId(k) ==
    /\ reports.selectedReport = "customer-history"
    /\ k \in {0} \cup reports.customers
    /\ k # reports.selectedCustomerId
    /\ ReportsStep([reports EXCEPT !.selectedCustomerId = k], "setSelectedCustomerId")

\* The Load History button, up to the await
loadCustomerHistory ==
    /\ reports.selectedReport = "customer-history"
    /\ reports.selectedCustomerId # 0 => Len(reports.pending) < MaxPending
    /\ ReportsStep(IF reports.selectedCustomerId = 0
                   THEN [reports EXCEPT !.error = "Please select a customer"]
                   ELSE [reports EXCEPT
                            !.loading = TRUE, !.error = "", !.reportData = NoData,
                            !.pending = Append(@, ReportRequest("customer-history",
                                                                reports.selectedCustomerId))],
                   "loadCustomerHistory")

\* The mount effect's getAll resolved: if (response.success && response.data)
\* setCustomers(response.data)
CustomersFulfilled(i, success) ==
    /\ i \in DOMAIN reports.pending /\ reports.pending[i] = CustomersRequest
    /\ ReportsStep([reports EXCEPT !.customers = IF success THEN {1, 2} ELSE @,
                                   !.pending = Without(@, i)],
                   "customersFulfilled")

\* ... rejected: console.error only
CustomersRejected(i) ==
    /\ i \in DOMAIN reports.pending /\ reports.pending[i] = CustomersRequest
    /\ ReportsStep([reports EXCEPT !.pending = Without(@, i)], "customersRejected")

\* A report request resolved: if (response.success && response.data)
\* setReportData(response.data) else setError(...); finally setLoading(false)
ReportFulfilled(i, success) ==
    /\ i \in DOMAIN reports.pending /\ reports.pending[i] # CustomersRequest
    /\ ReportsStep([reports EXCEPT
                       !.reportData = IF success THEN reports.pending[i] ELSE @,
                       !.error = IF success THEN @
                                 ELSE IF reports.pending[i].type = "customer-history"
                                 THEN "Failed to load customer history"
                                 ELSE "Failed to load report data",
                       !.loading = FALSE,
                       !.pending = Without(@, i)],
                   "reportFulfilled")

\* A report request rejected: setError(getErrorMessage(err)); finally
\* setLoading(false)
ReportRejected(i, failure) ==
    /\ i \in DOMAIN reports.pending /\ reports.pending[i] # CustomersRequest
    /\ ReportsStep([reports EXCEPT !.error = getErrorMessage(Interceptor(failure)),
                                   !.loading = FALSE,
                                   !.pending = Without(@, i)],
                   "reportRejected")

\* renderReportContent: the spinner while loading, the error when there is
\* one, otherwise the selected report's table over reportData
RowsDisplayed == ~reports.loading /\ reports.error = "" /\ reports.reportData # NoData

IdleReports == reports = InitialReports

IdleView == IdleList /\ IdleReports

(***************************************************************************)
(* Section 12. Specifications.                                              *)
(***************************************************************************)
IdleDb ==
    /\ tables = [e \in Entities |-> <<>>]
    /\ last = [op |-> "none", entity |-> "Customer", key |-> 1, result |-> "ok",
               payload |-> NoPayload, dangling |-> FALSE]

IdleForm ==
    /\ form = NoForm
    /\ editing = Null
    /\ formData = <<>>
    /\ errors = <<>>
    /\ submitting = FALSE
    /\ apiError = ""
    /\ loadingData = FALSE
    /\ request = NoRequest
    /\ event = [type |-> "init", message |-> ""]

InitDb ==
    /\ IdleDb
    /\ env \in Envs /\ env.tz = UTC
    /\ IdleForm
    /\ call = NoCall
    /\ IdleVal
    /\ IdleSeed
    /\ IdleView

NextDb ==
    \/ \E e \in Entities, k \in Keys : \E p \in Payloads(e) : Create(e, k, p)
    \/ \E e \in Entities, k \in Keys : \E p \in Payloads(e) : Update(e, k, p)
    \/ \E e \in Entities, k \in Keys : Delete(e, k)

SpecDb == InitDb /\ [][NextDb]_vars

InitForm ==
    /\ IdleDb
    /\ env \in Envs
    /\ IdleForm
    /\ call = NoCall
    /\ IdleVal
    /\ IdleSeed
    /\ IdleView

NextForm ==
    \/ \E f \in Entities : \E row \in {Null} \cup EditRows(f) : Mount(f, row)
    \/ LoadAllDataFulfilled
    \/ \E failure \in FormFailures : LoadAllDataRejected(failure)
    \/ \E name \in DOMAIN formData : \E value \in Inputs(form, name) : handleChange(name, value)
    \/ handleSubmit
    \/ \E success \in Envelopes : SubmitFulfilled(success)
    \/ \E failure \in FormFailures : SubmitRejected(failure)
    \/ closeApiError
    \/ onCancel

SpecForm == InitForm /\ [][NextForm]_vars

InitErr ==
    /\ IdleDb
    /\ env \in Envs /\ env.tz = UTC
    /\ IdleForm
    /\ call = NoCall
    /\ IdleVal
    /\ IdleSeed
    /\ IdleView

NextErr ==
    \/ \E op \in Operations : Send(op)
    \/ Succeed
    \/ Wait
    \/ \E failure \in Failures : Reject(failure)
    \/ TimeOut
    \/ Catch

SpecErr == InitErr /\ [][NextErr]_vars

InitVal ==
    /\ IdleDb
    /\ env \in Envs
    /\ IdleForm
    /\ call = NoCall
    /\ probe \in {[NoProbe EXCEPT !.a = x, !.b = y] : x \in ValInputs, y \in DateArgs}
    /\ IdleSeed
    /\ IdleView

NextVal ==
    \/ CallIsValidEmail
    \/ CallIsValidPhoneNumber
    \/ CallIsValidNumber
    \/ CallIsValidPositiveNumber
    \/ CallHasValidDecimals
    \/ \E range \in YearRanges(env.currentYear) : CallIsValidYear(range[1], range[2])
    \/ CallIsValidRating
    \/ CallIsRequired
    \/ CallIsAfter

SpecVal == InitVal /\ [][NextVal]_vars

InitSeed ==
    /\ IdleDb
    /\ env \in Envs /\ env.tz = UTC
    /\ IdleForm
    /\ call = NoCall
    /\ IdleVal
    /\ script = [pc |-> 1, failed |-> 0, removed |-> 0]
    /\ seeded \in {EmptyTables, SeededTables, StaleTables}
    /\ report = NoReport
    /\ removal = NoRemoval
    /\ IdleView

NextSeed ==
    \/ RunStatement
    \/ \E name \in Reports : RunReport(name)
    \/ \E target \in DeleteTargets : DeleteRow(target[1], target[2])

SpecSeed == InitSeed /\ [][NextSeed]_vars

InitList ==
    /\ IdleDb
    /\ env \in Envs /\ env.tz = UTC
    /\ IdleForm
    /\ call = NoCall
    /\ IdleVal
    /\ IdleSeed
    /\ IdleView

NextList ==
    \/ \E i \in 1..MaxPending : GetAllFulfilled(i)
    \/ \E i \in 1..MaxPending : \E failure \in LoadFailures : GetAllRejected(i, failure)
    \/ handleAdd
    \/ \E k \in CustomerIds : handleEdit(k)
    \/ \E k \in CustomerIds : handleDelete(k)
    \/ \E target \in DialogElements : ClickDialog(target)
    \/ \E i \in 1..MaxPending : DeleteFulfilled(i)
    \/ \E i \in 1..MaxPending : \E failure \in DeleteFailures : DeleteRejected(i, failure)
    \/ \E message \in FormMessages : handleFormSuccess(message)
    \/ handleFormCancel
    \/ closeError
    \/ closeSuccess

SpecList == InitList /\ [][NextList]_vars

InitReports ==
    /\ IdleDb
    /\ env \in Envs /\ env.tz = UTC
    /\ IdleForm
    /\ call = NoCall
    /\ IdleVal
    /\ IdleSeed
    /\ IdleView

NextReports ==
    \/ \E value \in ReportTypes : handleReportChange(value)
    \/ \E k \in {0, 1, 2} : setSelectedCustomerId(k)
    \/ loadCustomerHistory
    \/ \E i \in 1..MaxPending : \E success \in Envelopes : CustomersFulfilled(i, success)
    \/ \E i \in 1..MaxPending : CustomersRejected(i)
    \/ \E i \in 1..MaxPending : \E success \in Envelopes : ReportFulfilled(i, success)
    \/ \E i \in 1..MaxPending : \E failure \in LoadFailures : ReportRejected(i, failure)

SpecReports == InitReports /\ [][NextReports]_vars

(***************************************************************************)
(* Claims about the store.                                                 *)
(***************************************************************************)
AllRows == {<<e, k>> \in Entities \X Keys : k \in DOMAIN tables[e]}

\* C1: every foreign key of every stored row references an existing row, and
\* a create, or an update of an existing row, whose payload names a missing
\* parent is rejected with a constraint violation.
C1_ForeignKeysResolve ==
    /\ \A r \in AllRows :
          \A f \in DOMAIN ForeignKeys(r[1]) :
              tables[r[1]][r[2]][f] \in DOMAIN tables[ForeignKeys(r[1])[f]]
    /\ (/\ last.dangling
        /\ \/ last.op = "create"
           \/ last.op = "update" /\ last.key \in DOMAIN tables[last.entity])
       => last.result = "ConstraintViolation"

C1_Witness ==
    /\ last.op = "update" /\ last.entity = "Ride" /\ last.dangling
    /\ last.result = "ConstraintViolation"
    /\ tables["Payment"] # <<>>

\* C2: a delete of a row with dependents is rejected with a constraint
\* violation and changes no row of any table; a delete of a row without
\* dependents succeeds and removes exactly that row.
C2_DeleteRestricted ==
    [][LET e == last'.entity
           k == last'.key
       IN (last'.op = "delete" /\ k \in DOMAIN tables[e]) =>
            IF \E r \in AllRows : \E f \in DOMAIN ForeignKeys(r[1]) :
                   ForeignKeys(r[1])[f] = e /\ tables[r[1]][r[2]][f] = k
            THEN last'.result = "ConstraintViolation" /\ tables' = tables
            ELSE /\ last'.result = "ok"
                 /\ k \notin DOMAIN tables'[e]
                 /\ \A r \in AllRows \ {<<e, k>>} :
                        Get(tables', r[1], r[2]) = Get(tables, r[1], r[2])]_vars

C2_Witness ==
    /\ last.op = "delete" /\ last.entity = "Location"
    /\ last.result = "ConstraintViolation"
    /\ tables["Ride"] # <<>>

\* C3: after a successful create, get on the returned key returns the
\* submitted field values.
C3_CreateThenGet ==
    (last.op = "create" /\ last.result = "ok")
        => Get(tables, last.entity, last.key) = last.payload

C3_Witness ==
    /\ last.op = "create" /\ last.result = "ok" /\ last.entity = "Payment"
    /\ last.payload.amount = 2

\* C4: after a successful update, get returns exactly the new field values
\* and every other row of every table is unchanged.
C4_UpdateReplaces ==
    [][LET e == last'.entity
           k == last'.key
       IN (last'.op = "update" /\ last'.result = "ok") =>
            /\ Get(tables', e, k) = last'.payload
            /\ \A e2 \in Entities, k2 \in Keys :
                   <<e2, k2>> # <<e, k>> => Get(tables', e2, k2) = Get(tables, e2, k2)]_vars

C4_Witness ==
    /\ last.op = "update" /\ last.result = "ok" /\ last.entity = "Rating"
    /\ last.payload.driver_rating = 2
    /\ 2 \in DOMAIN tables["Rating"]

(***************************************************************************)
(* Claims about the forms.                                                 *)
(***************************************************************************)
\* Two ids denote the same row when their texts agree: the number 1 and the
\* string "1" are one location.
SameId(a, b) == a.v = b.v

\* A datetime text read as the wall-clock time it spells, zone apart.
WallClock(text) == NewDate(UTC, text)

\* C5: every ride payload RideForm sends has a pickup location different
\* from its dropoff location, and a submission where the two fields denote
\* the same location sends no request.
C5_PickupDiffersFromDropoff ==
    /\ request.entity = "Ride" =>
           ~SameId(request.data.pickup_location, request.data.dropoff_location)
    /\ (form = "Ride" /\ event.type = "submit"
            /\ SameId(formData.pickup_location, formData.dropoff_location))
           => request = NoRequest

\* C6: every ride payload RideForm sends has arrival_time strictly later
\* than start_time, and a submission whose arrival time is equal to or
\* earlier than its start time, or that lacks one of the two, sends no
\* request and sets an arrival_time or start_time error.
C6_ArrivalAfterStart ==
    /\ request.entity = "Ride" =>
           DateGreater(WallClock(request.data.arrival_time.v),
                       WallClock(request.data.start_time.v))
    /\ (form = "Ride" /\ event.type = "submit"
            /\ \/ formData.start_time.v = ""
               \/ formData.arrival_time.v = ""
               \/ ~DateGreater(WallClock(formData.arrival_time.v),
                               WallClock(formData.start_time.v)))
           => (request = NoRequest /\ (errors.arrival_time # "" \/ errors.start_time # ""))

\* C7: every rating payload RatingForm sends has a customer_rating and a
\* driver_rating that are integers in [1,5], whatever accepted input they
\* come from.
C7_RatingsInRange ==
    request.entity = "Rating" =>
        \A name \in {"customer_rating", "driver_rating"} :
            /\ IsInteger(request.data[name])
            /\ IntValue(request.data[name]) \in 1..5

C7_Witness ==
    /\ request.entity = "Rating"
    /\ formData.customer_rating = Str("4.5")
    /\ formData.driver_rating = Str("5e-1")
    /\ IntValue(request.data.customer_rating) = 4
    /\ IntValue(request.data.driver_rating) = 5

C9_InvalidSubmitSendsNothing ==
    [][/\ (event'.type = "submit" /\ HasError(validateForm(form', formData', env')))
              => /\ request' = NoRequest
                 /\ ~submitting'
                 /\ errors' = validateForm(form', formData', env')
       /\ (event.type = "submit" /\ HasError(errors)) => event'.type # "onSuccess"]_vars

C9_Witness ==
    /\ event.type = "submit"
    /\ form = "Customer"
    /\ errors.email = "Please enter a valid email address (e.g., user@example.com)"
    /\ request = NoRequest
    /\ ~submitting

\* C10, as stated: when a create, update or delete is rejected with a
\* validation or constraint-violation error, the message shown is character
\* for character the error string of the error envelope.
C10_ShownVerbatim ==
    (call.phase = "shown" /\ call.failure.kind = "response")
        => call.shown = call.failure.error

C10_Keywords == {"foreign key", "constraint", "unique", "duplicate"}

C10_FixedTexts ==
    {"Cannot delete this customer because they have associated rides. Please delete the rides first.",
     "Cannot delete this driver because they have associated vehicles or rides. Please delete those records first.",
     "Cannot delete this vehicle because it has associated rides. Please delete the rides first.",
     "Cannot delete this location because it is used in existing rides. Please delete those rides first.",
     "Cannot delete this ride because it has associated payments or ratings. Please delete those records first.",
     "Cannot delete this record because it is referenced by other records. Please delete the dependent records first.",
     "This value already exists in the database. Please use a different value."}

\* C10, amended: the message shown is character for character the
\* envelope's error string when that string is not empty and contains none
\* of 'foreign key', 'constraint', 'unique', 'duplicate' (in any letter
\* case); a string containing one of them is replaced by one of the fixed
\* texts of formatForeignKeyError, and an empty one by 'An error occurred'.
C10_ShownVerbatimUnlessRewritten ==
    (call.phase = "shown" /\ call.failure.kind = "response")
        => IF call.failure.error = "" THEN call.shown = "An error occurred"
           ELSE IF \E w \in C10_Keywords : Includes(ToLowerCase(call.failure.error), w)
           THEN call.shown \in C10_FixedTexts
           ELSE call.shown = call.failure.error

C10_Witness ==
    /\ call.phase = "shown"
    /\ call.op = "delete"
    /\ call.failure.error = "Cannot delete customer with existing rides"
    /\ call.shown = "Cannot delete customer with existing rides"

(***************************************************************************)
(* Claims about the API client.                                            *)
(***************************************************************************)
\* C11: a request that receives no response, one that exceeds the 10-second
\* timeout included, is rejected with status 0 and the fixed network-error
\* message, and the text shown is that message whatever message the
\* underlying failure carries; no request stays in flight past the timeout.
C11_NoResponseIsGeneric ==
    /\ (call.phase \in {"rejected", "shown"} /\ call.failure.kind = "noResponse")
          => /\ call.rejection.status = 0
             /\ call.rejection.message =
                    "Network error. Please check your connection and ensure the backend server is running."
             /\ call.phase = "shown" => call.shown = call.rejection.message
    /\ call.phase = "sent" => call.elapsed <= 10000
    /\ (call.phase \in {"rejected", "shown"} /\ call.elapsed >= 10000)
          => call.failure.kind = "noResponse"

C11_Witness ==
    /\ call.phase = "shown"
    /\ call.elapsed = 10000
    /\ call.failure.error = "timeout of 10000ms exceeded"
    /\ call.shown = "Network error. Please check your connection and ensure the backend server is running."

\* C12: no request is retried automatically: a request leaves only on a
\* user action taken while no call is in flight or being handled, it is the
\* only request of its call, waiting issues none, and a rejected call goes
\* on to show its one failure and nothing else.
C12_NoAutomaticRetry ==
    [][/\ (call'.phase = "sent" /\ call.phase # "sent")
              => call.phase \in {"idle", "shown"} /\ call'.requests = 1
       /\ (call'.phase = "sent" /\ call.phase = "sent") => call'.requests = call.requests
       /\ call.phase = "rejected"
              => /\ call'.phase = "shown"
                 /\ call'.failure = call.failure
                 /\ call'.rejection = call.rejection
                 /\ call'.requests = 1
       /\ call'.requests <= 1]_vars

C12_Witness ==
    /\ call.phase = "shown"
    /\ call.op = "create"
    /\ call.failure.error = "Network Error"
    /\ call.requests = 1

(***************************************************************************)
(* Claims about the validation functions.                                  *)
(***************************************************************************)
\* A number, or a text that spells one: Number(a) is finite and a is not blank.
Numeric(a) == a.t \in {"string", "number"} /\ Trim(a.v) # "" /\ IsFiniteNum(ToNumber(a))

\* The value of a finite whole number.
WholeValue(x) ==
    (IF x.neg THEN 0 - 1 ELSE 1)
        * ((x.n * Pow10(IF x.exp > 0 THEN x.exp ELSE 0))
               \div Pow10(IF x.exp < 0 THEN 0 - x.exp ELSE 0))

WholeIn(a, lo, hi) ==
    /\ IsInteger(ToNumber(a))
    /\ WholeValue(ToNumber(a)) >= lo
    /\ WholeValue(ToNumber(a)) <= hi

\* C13: for every numeric or numeric-string input r, isValidRating(r) is
\* true exactly when r is an integer in [1,5].
C13_RatingIntegerInRange ==
    (probe.fn = "isValidRating" /\ Numeric(probe.a))
        => (probe.result = Returned(WholeIn(probe.a, 1, 5)))

\* C14: isAfter(start, end) is true exactly when both arguments are present
\* and the datetime end spells is strictly later than the one start spells.
C14_StrictOrdering ==
    probe.fn = "isAfter"
        => probe.result = Returned(/\ ~Falsy(probe.a) /\ ~Falsy(probe.b)
                                   /\ DateGreater(WallClock(probe.b.v), WallClock(probe.a.v)))

\* C15: for every numeric or numeric-string input y, isValidYear(y, min, max)
\* is true exactly when y is an integer with min <= y <= max.
C15_YearIntegerInRange ==
    (probe.fn = "isValidYear" /\ Numeric(probe.a))
        => (probe.result = Returned(WholeIn(probe.a, probe.minYear, probe.maxYear)))

\* C16: every validation function returns a boolean, and does not throw,
\* for an argument of every kind: string, number, empty string, null,
\* undefined.
C16_ReturnsBoolean ==
    probe.fn # "none" => probe.result \in {"true", "false"}

(***************************************************************************)
(* Claims about the seed fixture.                                          *)
(***************************************************************************)
\* The report was run after the whole script.
ReportOverFixture(name) ==
    Seeded /\ report.name = name /\ report.at = script.pc /\ report.removed = 0

\* C17: over the seed fixture the top-drivers report yields all 5 drivers,
\* each with ride_count = 3.
C17_TopDriversAllThree ==
    ReportOverFixture("top-drivers")
        => {<<r.DRIVER_ID, r.RIDE_COUNT>> : r \in report.rows} = {<<d, 3>> : d \in 1..5}

C17_Witness ==
    /\ ReportOverFixture("top-drivers")
    /\ Cardinality(report.rows) = 5
    /\ Cardinality(seeded["Ride"]) = 15
    /\ script.failed = 0

\* C18: over the seed fixture the revenue-by-method report yields for
\* "Credit Card" a total of 105.50 over 4 transactions.
C18_CreditCardRevenue ==
    ReportOverFixture("revenue-by-method")
        => \E r \in report.rows :
               /\ r.PAYMENT_METHOD = "Credit Card"
               /\ r.TOTAL_REVENUE = 10550
               /\ r.TRANSACTION_COUNT = 4

\* C19: over the seed fixture the average-ratings report yields for driver 5
\* (Tom Navigator) an average of 5.0 over 1 rating.
C19_TomAverage ==
    ReportOverFixture("average-ratings")
        => \E r \in report.rows :
               /\ r.DRIVER_ID = 5
               /\ r.DRIVER_NAME = "Tom Navigator"
               /\ r.AVG_RATING = 500
               /\ r.RATING_COUNT = 1

C19_Witness ==
    /\ ReportOverFixture("average-ratings")
    /\ \E g \in seeded["Rating"] : g.Ride_ID = 10 /\ g.Driver_Rating = 5
    /\ \E r \in report.rows : r.DRIVER_ID = 5 /\ r.RATING_COUNT = 1

\* C20: over the seed fixture the per-driver rating statistics are: driver 1
\* 3 ratings with average 4.67, driver 2 2 ratings with average 4.5, driver
\* 3 2 ratings with average 4.5, driver 4 2 ratings with average 4.0.
C20_DriverStatistics ==
    ReportOverFixture("average-ratings")
        => {<<1, 3, 467>>, <<2, 2, 450>>, <<3, 2, 450>>, <<4, 2, 400>>}
               \subseteq {<<r.DRIVER_ID, r.RATING_COUNT, r.AVG_RATING>> : r \in report.rows}

\* C21: in the seed fixture, deleting location 1 fails with a constraint
\* violation because a ride uses it as pickup or dropoff, and the rows of
\* the fixture are unchanged afterwards.
C21_DeleteLocationOneFails ==
    [][(/\ Seeded /\ script.removed = 0
        /\ removal' # removal
        /\ removal'.table = "Location" /\ removal'.key = 1)
           => /\ removal'.result = "ConstraintViolation"
              /\ \E r \in seeded["Ride"] : r.Pickup_Location = 1 \/ r.Dropoff_Location = 1
              /\ seeded' = seeded]_vars

C21_Witness ==
    /\ Seeded /\ script.removed = 0
    /\ removal = [table |-> "Location", key |-> 1, result |-> "ConstraintViolation"]
    /\ Cardinality(seeded["Location"]) = 10

\* C22: started from any tables that satisfy the foreign-key constraints,
\* no statement of init_db.sql fails, and the script ends with exactly 5
\* customers, 5 drivers, 5 vehicles, 10 locations, 15 rides, 10 payments and
\* 8 ratings, the rows it inserts: a second run gives the state of the first.
C22_ScriptRunsClean ==
    /\ script.failed = 0
    /\ (Seeded /\ script.removed = 0)
          => /\ seeded = SeededTables
             /\ <<Cardinality(seeded["Customer"]), Cardinality(seeded["Driver"]),
                  Cardinality(seeded["Vehicle"]), Cardinality(seeded["Location"]),
                  Cardinality(seeded["Ride"]), Cardinality(seeded["Payment"]),
                  Cardinality(seeded["Rating"])>> = <<5, 5, 5, 10, 15, 10, 8>>

C22_Witness ==
    /\ Seeded /\ script.removed = 0 /\ script.failed = 0
    /\ seeded = SeededTables
    /\ removal.result = "ConstraintViolation"

(***************************************************************************)
(* Claims about the list views, the forms' requests and the Reports view.  *)
(***************************************************************************)
DeletesPending(n) == Cardinality({i \in DOMAIN n.pending : n.pending[i].op = "delete"})

\* C23: a list view sends a DELETE for a row only from a click on the
\* dialog's Confirm button while the dialog is open for that row, and the
\* dialog opens for a row only by handleDelete on that row; a click that
\* runs the cancel handler sends nothing, closes the dialog and leaves the
\* rows shown, the error and the success message as they were; a click on
\* Confirm never runs the cancel handler.
C23_DeleteNeedsConfirmation ==
    [][/\ DeletesPending(net') > DeletesPending(net)
            => /\ net'.event.type = "click" /\ net'.event.target = "confirmButton"
               /\ list.deleteConfirm # 0
               /\ net'.pending = Append(net.pending, DeleteRequest(list.deleteConfirm))
       /\ (list'.deleteConfirm # 0 /\ list'.deleteConfirm # list.deleteConfirm)
            => /\ net'.event.type = "handleDelete"
               /\ net'.event.key = list'.deleteConfirm
       /\ (net'.event.type = "click" /\ Ran("onCancel", net'.event))
            => /\ net'.pending = net.pending
               /\ list'.deleteConfirm = 0
               /\ list'.customers = list.customers
               /\ list'.error = list.error
               /\ list'.success = list.success
       /\ (net'.event.type = "click" /\ net'.event.target = "confirmButton")
            => ~Ran("onCancel", net'.event)]_vars

C23_Witness ==
    /\ net.event.type = "click"
    /\ net.event.target = "confirmButton"
    /\ net.event.handlers = <<"onConfirm", "stopPropagation">>
    /\ list.deleteConfirm = 1
    /\ net.pending = <<DeleteRequest(1)>>

\* C24: in every entity form, submitting is true exactly while the write
\* request of a valid submission is in flight: a request starts only when
\* none is in flight and sets it, the request's settling (fulfilled or
\* rejected) clears it, and while it is set no input changes and no second
\* request starts.
C24_SubmittingSpansRequest ==
    [][/\ submitting' <=> (request' # NoRequest)
       /\ (event'.type = "submit" /\ request' # NoRequest)
            => (request = NoRequest /\ ~submitting /\ submitting')
       /\ event'.type \in {"onSuccess", "rejected"}
            => (request # NoRequest /\ submitting /\ ~submitting' /\ request' = NoRequest)
       /\ (submitting /\ form' # NoForm) => formData' = formData]_vars

C24_Witness ==
    /\ event.type = "rejected"
    /\ form = "Customer"
    /\ ~submitting
    /\ request = NoRequest
    /\ apiError # ""

\* C25: in the Reports view, whenever report rows are displayed they are
\* the response to the request made for the currently selected report.
C25_RowsOfSelectedReport ==
    RowsDisplayed => reports.reportData.type = reports.selectedReport

\* C26: a list view sends at most one DELETE request for each deletion the
\* user confirms (each opening of the dialog), whatever the order of the
\* clicks on Confirm and of the response; once the request has settled the
\* dialog is closed.
C26_OneDeletePerConfirmation ==
    [][/\ net'.deletes <= 1
       /\ net'.event.type \in {"deleteFulfilled", "deleteRejected"}
            => list'.deleteConfirm = 0]_vars

\* C27: a form calls onSuccess only for a response whose envelope has
\* success = true, and a rejected write leaves an error message in the form.
C27_OnSuccessOnlyForSuccessEnvelope ==
    /\ event.type = "onSuccess" => event.success
    /\ event.type = "rejected" => apiError # ""

\* C28: the payment_date PaymentForm sends is the date entered in the
\* payment date field, in every time zone of the browser.
C28_PaymentDateSurvives ==
    (request.entity = "Payment" /\ event.type = "submit")
        => request.data.payment_date = formData.payment_date

\* C29: formatForeignKeyError maps a message containing 'unique' or
\* 'duplicate' (in any letter case) to the duplicate-value text, and a
\* message containing none of 'foreign key', 'constraint', 'unique',
\* 'duplicate' to itself.
C29_DuplicateMessagesMapped ==
    call.phase = "shown"
        => LET m == ToLowerCase(call.rejection.message)
           IN /\ (Includes(m, "unique") \/ Includes(m, "duplicate"))
                    => call.shown = DuplicateError
              /\ (\A w \in C10_Keywords : ~Includes(m, w))
                    => call.shown = call.rejection.message

\* C30: in a list view a success message and an error message are never
\* both set.
C30_NeverBothMessages ==
    ~(list.error # "" /\ list.success # "")

====
